---- MODULE Spec2Model ----
(***************************************************************************)
(* Model of qt_thread_updater.ThreadUpdater (thread_updater.py): the four  *)
(* pending-call collections with their locks, the submission methods as    *)
(* run by producer threads and by the main thread, the timer life cycle    *)
(* and run_update, the drain executed by the timer on the main thread.     *)
(***************************************************************************)
EXTENDS Integers, Sequences, FiniteSets, TLC

\* ------------------------------------------------------------------ bounds
MaxSubmit == 2      \* operations started by producer threads
MaxMainOps == 1     \* operations called directly on the main thread
MaxDrains == 2      \* timer ticks (run_update calls)
MaxTime == 2        \* clock values 0..MaxTime
MaxControl == 3     \* start, stop and create_timer calls on the main thread
MaxOrder == 3       \* submissions of the producer whose order is followed
MaxUnreg == 3       \* register_continuous / unregister_continuous calls
MaxGets == 3        \* get_updater calls
MaxSets == 2        \* set_updater / cleanup_app calls
MaxWork == 1        \* calls stored in one updater through the manager
MaxWrites == 2      \* write calls on the widgets
MaxText == 2        \* characters in a written text

\* --------------------------------------------------------------- constants
PRINT_ERROR == "print"
HIDE_ERROR == "hide"
RAISE_ERROR == "raise"
DebugTypes == {PRINT_ERROR, HIDE_ERROR, RAISE_ERROR}

Producers == {"p1", "p2"}
MainThread == "main"

\* Callable identities: f is a plain function that returns normally, bad a
\* plain function that raises, part a callable object without __name__
\* (such as a functools.partial) that raises.
Funcs == {"f", "bad", "part"}
Raises(func) == func \in {"bad", "part"}
\* "again" is a callable that calls a method of the updater that runs it,
\* passing itself and its own argument, and returns
Resubmits(func) == func = "again"
HasName(func) == func # "part"

\* Argument values, and requested delays: negative, zero, positive
Args == {1, 2}
Delays == {0 - 1, 0, 1}

\* The collections in the order run_update collects them.
Kinds == <<"always", "latest", "every", "delay">>
KindIdx(k) == CHOOSE i \in 1..4 : Kinds[i] = k

VARIABLES
    always_call,   \* OrderedDict func -> args, as a sequence of [f, a]
    latest_call,   \* OrderedDict func -> args, as a sequence of [f, a]
    every_call,    \* OrderedDict func -> list of args, as a sequence of [f, li]
    delay_call,    \* list of DelayedFunc [start_time, delay_time, f, a]
    locks,         \* holder of each collection's lock, or "none"
    running,       \* self._running
    tmr,           \* self._tmr: "none", "inactive" or "active"
    debug_type,    \* self.debug_type
    connected,     \* init() has connected starting, stopping and creating
    timeout,       \* self._timeout, in units of 1/3000 s
    interval,      \* the interval of the QTimer self._tmr, in milliseconds
    sigq,          \* queued signal emissions waiting in the main event loop
    now,           \* time.time()
    pc,            \* position of each producer thread
    req,           \* the call each producer thread is executing
    drain,         \* run_update's position and local variables
    hist,          \* history: submissions and invocations
    nsub,          \* producer operations started
    nmain,         \* main-thread operations called
    ndrain,        \* run_update calls started
    mgr,           \* the GlobalUpdaterManager, its updaters and its callers
    attrs,         \* instance attributes of the updater assigned from outside
    orphan,        \* a QTimer the updater no longer holds is active
    widget         \* the QuickPlainTextEdit and the QuickTextEdit: queue and document

vars == <<always_call, latest_call, every_call, delay_call, locks, running, tmr,
          debug_type, connected, timeout, interval, sigq, now, pc, req, drain, hist, nsub, nmain, ndrain,
          mgr, attrs, orphan, widget>>

\* ------------------------------------------------------- OrderedDict, list
HasKey(d, func) == \E i \in 1..Len(d) : d[i].f = func
KeyIdx(d, func) == CHOOSE i \in 1..Len(d) : d[i].f = func
Reverse(s) == [i \in 1..Len(s) |-> s[Len(s) + 1 - i]]

\* d[func] = (args, kwargs): a present key keeps its position.
DictSet(d, func, a) ==
    IF HasKey(d, func)
    THEN [d EXCEPT ![KeyIdx(d, func)] = [f |-> func, a |-> a]]
    ELSE Append(d, [f |-> func, a |-> a])

\* d.pop(func, None)
DictPop(d, func) == SelectSeq(d, LAMBDA e : e.f # func)

\* register_continuous: self._always_call[func] = (args, kwargs)
AlwaysSet(d, func, a) == DictSet(d, func, a)

\* unregister_continuous that removes nothing
AlwaysPopKeeps(d, func) == d

\* unregister_continuous: self._always_call.pop(func, None)
AlwaysPop(d, func) == DictPop(d, func)

\* call_latest that keeps the arguments already stored for the target
LatestSetKeepsFirst(d, func, a) ==
    IF HasKey(d, func) THEN d ELSE Append(d, [f |-> func, a |-> a])

\* call_latest: self._latest_call[func] = (args, kwargs)
LatestSet(d, func, a) == DictSet(d, func, a)

\* call_in_main that starts a new list at the end for every submission
EveryAppendUngrouped(d, func, a) == Append(d, [f |-> func, li |-> <<a>>])

\* call_in_main that starts a new list on every call
EveryAppendReplaces(d, func, a) ==
    IF HasKey(d, func)
    THEN [d EXCEPT ![KeyIdx(d, func)].li = <<a>>]
    ELSE Append(d, [f |-> func, li |-> <<a>>])

\* call_in_main: append to the target's list, or start one on KeyError
EveryAppend(d, func, a) ==
    IF HasKey(d, func)
    THEN [d EXCEPT ![KeyIdx(d, func)].li = Append(@, a)]
    ELSE Append(d, [f |-> func, li |-> <<a>>])

\* delay: self._delay_call.append(DelayedFunc(now, seconds, func, args, kwargs))
DelayAppend(l, t0, seconds, func, a) ==
    Append(l, [start_time |-> t0, delay_time |-> seconds, f |-> func, a |-> a])

\* can_run that needs more than the requested delay to have passed
CanRunStrict(e, t) == (t - e.start_time) > e.delay_time

\* DelayedFunc.can_run at clock value t
CanRun(e, t) == (t - e.start_time) >= e.delay_time

\* run_update: [pop(i) for i in reversed(range(len)) if can_run()], the
\* popped entries (from the back of the list to its front) ...
DelayTake(l, t) == Reverse(SelectSeq(l, LAMBDA e : CanRun(e, t)))
\* A partition that leaves every entry in self._delay_call
DelayRestKeepsAll(l, t) == l
\* ... and what pop leaves in self._delay_call
DelayRest(l, t) == SelectSeq(l, LAMBDA e : ~CanRun(e, t))

\* run_update: always = self._always_call.copy()
AlwaysCopy(d) == d
\* run_update that leaves the collected entries in self._latest_call
LatestSwapKeeps(d) == [taken |-> d, left |-> d]
\* run_update: latest, self._latest_call = self._latest_call, OrderedDict()
LatestSwap(d) == [taken |-> d, left |-> <<>>]
\* run_update: main, self._every_call = self._every_call, OrderedDict()
EverySwap(d) == [taken |-> d, left |-> <<>>]

\* ------------------------------------------------------------ handle_error
\* What the with-block does with a callable's result: "ok" (no exception),
\* "caught" (exception handled, the drain goes on) or "escaped" (an
\* exception leaves the with-block). Under PRINT_ERROR the handler formats
\* func.__name__, which raises AttributeError for a callable without one.
HandleError(policy, func) ==
    IF ~Raises(func) THEN "ok"
    ELSE IF policy = RAISE_ERROR THEN "escaped"
    ELSE IF policy = HIDE_ERROR THEN "caught"
    ELSE IF HasName(func) THEN "caught"
    ELSE "escaped"

\* ---------------------------------------------------------------- timer
\* The default of __init__'s timeout argument, 1/30 s, in units of 1/3000 s
DefaultTimeout == 100

\* Timeouts passed to set_timeout, in units of 1/3000 s
Timeouts == {1, 3, 4}

\* "int(self.get_timeout() * 1000)": whole milliseconds of a timeout
MsOf(t) == t \div 3

\* stop() that clears the running flag and leaves the timer as it is
StopKeepsTimer(c, set_state) ==
    [c EXCEPT !.running = IF set_state THEN FALSE ELSE @]

\* stop() on the main thread, on c = [running, tmr, timeout, interval]
StopOp(c, set_state) ==
    [c EXCEPT !.running = IF set_state THEN FALSE ELSE @,
              !.tmr = IF @ = "none" THEN "none" ELSE "inactive"]

\* create_timer() that replaces the timer without stopping it
CreateTimerWithoutStop(c) ==
    [c EXCEPT !.tmr = "inactive", !.interval = MsOf(c.timeout),
              !.orphan = @ \/ c.tmr = "active"]

\* create_timer() on the main thread: stop(set_state=False) stops the timer
\* the updater holds, then a new QTimer, not started, replaces it; the old
\* one is left in the state stop() gave it
CreateTimerOp(c) ==
    [StopOp(c, FALSE) EXCEPT !.tmr = "inactive", !.interval = MsOf(c.timeout),
                             !.orphan = @ \/ StopOp(c, FALSE).tmr = "active"]

\* start() that starts a timer and leaves the running flag as it is
StartLeavesFlag(c) == [CreateTimerOp(c) EXCEPT !.tmr = "active"]

\* start() on the main thread
StartOp(c) ==
    LET c1 == [StopOp(c, FALSE) EXCEPT !.running = TRUE]
        c2 == IF c1.tmr = "none" THEN CreateTimerOp(c1) ELSE c1
    IN  [c2 EXCEPT !.tmr = "active"]

Ctl == [running |-> running, tmr |-> tmr, timeout |-> timeout,
        interval |-> interval, orphan |-> orphan]

\* set_timeout's body that sets the timer's interval and does not store
\* the timeout
SetIntervalForgets(c, value) ==
    [c EXCEPT !.interval = IF c.tmr = "none" THEN @ ELSE MsOf(value)]

\* set_timeout's body: "self._timeout = value" and "self._tmr.setInterval(
\* int(self.get_timeout() * 1000))", which raises and is passed over when
\* there is no timer
SetIntervalOp(c, value) ==
    [c EXCEPT !.timeout = value,
              !.interval = IF c.tmr = "none" THEN @ ELSE MsOf(value)]

\* set_timeout(value) on the main thread: restart_on_change stops a running
\* updater before the body and starts it after
SetTimeoutOp(c, value) ==
    IF c.running
    THEN StartOp(SetIntervalOp(StopOp(c, TRUE), value))
    ELSE SetIntervalOp(c, value)

\* ------------------------------------------------------------- history
\* One history entry.  e = "sub": a mutation of collection k made under its
\* lock, n the number of the run_update call whose collection step comes
\* next for k; e = "call": an invocation of f(a), k the collection it came
\* from ("now" for a direct call), n the run_update call, th the thread, x
\* the outcome; e = "part": run_update call n partitioned the delayed list
\* at clock value x.
Ev(e, k, func, a, n, th, x) ==
    [e |-> e, k |-> k, f |-> func, a |-> a, n |-> n, th |-> th, x |-> x]

\* run_update calls that have finished their collection step for k
Collected(k) ==
    IF drain.st \in {"idle", "exec", "re_lock", "re_cs", "re_er"}
       \/ drain.k > KindIdx(k)
    THEN ndrain ELSE ndrain - 1

\* --------------------------------------------------------------- threads
\* is_main_thread that takes every thread for the main thread
EveryThreadIsMain(th) == TRUE

is_main_thread(th) == th = MainThread

SubmitOps == {"delay", "register_continuous", "call_latest", "call_in_main",
              "now_call_latest", "now_call_in_main"}
NowOps == {"now_call_latest", "now_call_in_main"}
ControlOps == {"start", "stop", "create_timer"}
\* "stop_keep" is stop(set_state=False)
MarshalledOps == ControlOps \cup {"stop_keep"}
AllOps == SubmitOps \cup {"unregister_continuous"} \cup ControlOps
              \cup {"set_timeout"}

\* The collection (and lock) an operation works on
OpKind(op) ==
    CASE op \in {"register_continuous", "unregister_continuous"} -> "always"
      [] op \in {"call_latest", "now_call_latest"} -> "latest"
      [] op \in {"call_in_main", "now_call_in_main"} -> "every"
      [] OTHER -> "delay"

\* The signal a control method emits when called off the main thread
SignalOf(op) ==
    CASE op = "start" -> "starting"
      [] op \in {"stop", "stop_keep"} -> "stopping"
      [] OTHER -> "creating"

NoReq == [op |-> "none", f |-> "f", a |-> 0, d |-> 0, t0 |-> 0,
          restart |-> FALSE]
IdleDrain == [st |-> "idle", k |-> 0, always |-> <<>>, latest |-> <<>>,
              main |-> <<>>, delayed |-> <<>>, re |-> "none", t0 |-> 0]

\* The methods a callable invoked by run_update calls on its updater
ReOps == {"delay", "register_continuous", "call_latest", "call_in_main",
          "ensure_running"}

\* now_call methods that call the target on whatever thread calls them
NowCallsAlways(op, th) == op \in NowOps

\* now_call_latest / now_call_in_main: "if is_main_thread(): func(...)"
NowCallsDirectly(op, th) == op \in NowOps /\ is_main_thread(th)

\* A direct call func(*args) outside handle_error: an exception reaches the caller
DirectOutcome(func) == IF Raises(func) THEN "escaped" ELSE "ok"

\* ------------------------------------------------ GlobalUpdaterManager
\* The threads that call get_updater, set_updater and cleanup_app
Callers == Producers \cup {MainThread}

\* None, as the value of main_updater or of a reference not yet obtained
NoUpdater == 0

\* ThreadUpdater(...): the four collections are empty (work counts the
\* entries stored in them), nothing is connected before init()
NewUpdater == [work |-> 0, connected |-> FALSE]

\* ThreadUpdater.init(): the signals are connected
InitUpdater(u) == [u EXCEPT !.connected = TRUE]

\* GlobalUpdaterManager(): self.lock = RLock(), self.main_updater =
\* ThreadUpdater(); objs are the updaters made so far (an updater's identity
\* is its place in objs), at is each caller's position, arg the updater
\* passed to set_updater, got the updater get_updater returned last, log the
\* order of the writes of main_updater and of get_updater's returns
MgrInit ==
    [lock |-> "none", main_updater |-> 1,
     objs |-> <<InitUpdater(NewUpdater)>>,
     at |-> [t \in Callers |-> "idle"],
     arg |-> [t \in Callers |-> NoUpdater],
     got |-> [t \in Callers |-> NoUpdater],
     log |-> <<>>, ngets |-> 0, nsets |-> 0]

\* A manager without the lock: a caller enters the with-block at once
NoManagerLock(m, t) == TRUE

\* "with self.lock:" can be entered by t
ManagerLockFree(m, t) == m.lock \in {"none", t}

\* The variables of the ThreadUpdater followed in the other sections
updaterVars == <<always_call, latest_call, every_call, delay_call, locks,
                 running, tmr, debug_type, connected, timeout, interval, sigq,
                 now, pc, req, drain, hist, nsub, nmain, ndrain, attrs,
                 orphan, widget>>

\* Thread t calls get_updater()
GetBegin(t) ==
    /\ mgr.at[t] = "idle"
    /\ mgr.ngets < MaxGets
    /\ mgr' = [mgr EXCEPT !.at[t] = "g_lock", !.ngets = @ + 1]
    /\ UNCHANGED updaterVars

\* get_updater: "with self.lock:" entered
GetAcquire(t) ==
    /\ mgr.at[t] = "g_lock"
    /\ ManagerLockFree(mgr, t)
    /\ mgr' = [mgr EXCEPT !.at[t] = "g_test", !.lock = t]
    /\ UNCHANGED updaterVars

\* get_updater: "if self.main_updater is None:"
GetTest(t) ==
    /\ mgr.at[t] = "g_test"
    /\ mgr' = [mgr EXCEPT !.at[t] = IF mgr.main_updater = NoUpdater
                                    THEN "g_create" ELSE "g_return"]
    /\ UNCHANGED updaterVars

\* get_updater: "self.main_updater = ThreadUpdater(init_later=True)"
GetCreate(t) ==
    /\ mgr.at[t] = "g_create"
    /\ mgr' = [mgr EXCEPT !.at[t] = "g_init",
                          !.objs = Append(@, NewUpdater),
                          !.main_updater = Len(mgr.objs) + 1,
                          !.log = Append(@, [e |-> "new", t |-> t,
                                             u |-> Len(mgr.objs) + 1])]
    /\ UNCHANGED updaterVars

\* get_updater: "self.main_updater.init()"
GetInit(t) ==
    /\ mgr.at[t] = "g_init"
    /\ mgr' = [mgr EXCEPT !.at[t] = "g_return",
                          !.objs[mgr.main_updater] = InitUpdater(@)]
    /\ UNCHANGED updaterVars

\* get_updater: "return self.main_updater", leaving the with-block
GetReturn(t) ==
    /\ mgr.at[t] = "g_return"
    /\ mgr' = [mgr EXCEPT !.at[t] = "idle", !.lock = "none",
                          !.got[t] = mgr.main_updater,
                          !.log = Append(@, [e |-> "ret", t |-> t,
                                             u |-> mgr.main_updater])]
    /\ UNCHANGED updaterVars

\* Thread t stores a call in the updater get_updater gave it, as
\* global_utils.call_latest and the other module functions do
StoreWork(t) ==
    /\ mgr.at[t] = "idle"
    /\ mgr.got[t] # NoUpdater
    /\ mgr.objs[mgr.got[t]].work < MaxWork
    /\ mgr' = [mgr EXCEPT !.objs[mgr.got[t]].work = @ + 1]
    /\ UNCHANGED updaterVars

\* Thread t calls set_updater(u) with an updater made before, or with None
\* as cleanup_app does
SetBegin(t) ==
    /\ mgr.at[t] = "idle"
    /\ mgr.nsets < MaxSets
    /\ \E u \in {NoUpdater} \cup (1..Len(mgr.objs)) :
         mgr' = [mgr EXCEPT !.at[t] = "s_lock", !.arg[t] = u, !.nsets = @ + 1]
    /\ UNCHANGED updaterVars

\* set_updater: "with self.lock:" entered
SetAcquire(t) ==
    /\ mgr.at[t] = "s_lock"
    /\ ManagerLockFree(mgr, t)
    /\ mgr' = [mgr EXCEPT !.at[t] = "s_set", !.lock = t]
    /\ UNCHANGED updaterVars

\* set_updater: "self.main_updater = updater", leaving the with-block
SetWrite(t) ==
    /\ mgr.at[t] = "s_set"
    /\ mgr' = [mgr EXCEPT !.at[t] = "idle", !.lock = "none",
                          !.main_updater = mgr.arg[t],
                          !.arg[t] = NoUpdater,
                          !.log = Append(@, [e |-> "set", t |-> t,
                                             u |-> mgr.arg[t]])]
    /\ UNCHANGED updaterVars

\* The instance has no attribute named timeout: the class defines
\* get_timeout and set_timeout and no property, and __init__ stores the
\* constructor's argument as self._timeout
NoAttrs == [has_timeout |-> FALSE, timeout |-> 0]

\* "updater.timeout = v" from outside the class: Python stores v as the
\* instance attribute timeout; self._timeout and the timer are not involved
AssignTimeoutAttr(at, c, v) ==
    [attrs |-> [at EXCEPT !.has_timeout = TRUE, !.timeout = v], c |-> c]

\* ------------------------------------------------------------- widgets
\* The two widget classes; the name of a class also stands for the bound
\* method update_display of the widget of that class, as a target of
\* call_latest
WidgetClasses == {"QuickPlainTextEdit", "QuickTextEdit"}
DEFAULT_MAX_BLOCKS == 800

\* A deque that takes no notice of maxlen
DequeUnbounded(items, m) == items

\* deque(items, maxlen=m): the last m items
Deque(items, m) ==
    IF Len(items) <= m THEN items
    ELSE SubSeq(items, Len(items) - m + 1, Len(items))

\* A widget after __init__: the queue is empty with maxlen
\* DEFAULT_MAX_BLOCKS, nothing is in the document; written is the history
\* of the entries write has put on the queue
NewWidget ==
    [queue |-> <<>>, maxlen |-> DEFAULT_MAX_BLOCKS, doc |-> <<>>,
     written |-> <<>>]

\* setMaximumBlockCount(maximum)
setMaximumBlockCount(w, maximum) ==
    LET m == IF maximum <= 0 THEN 0 ELSE maximum
    IN  [w EXCEPT !.queue = Deque(@, m), !.maxlen = m]

\* What write(text) puts on the queue: QuickPlainTextEdit extends the deque
\* with the characters of the text, QuickTextEdit appends one (text, fmt)
\* item
Entries(kind, text) ==
    IF kind = "QuickPlainTextEdit" THEN text
    ELSE <<[text |-> text, fmt |-> "fmt"]>>

\* write(text) up to the end of its with-block, for a text that is not
\* empty
QueueWrite(w, kind, text) ==
    [w EXCEPT !.queue = Deque(@ \o Entries(kind, text), w.maxlen),
              !.written = @ \o Entries(kind, text)]

\* update_display(): everything on the queue is popped, under the lock,
\* and inserted at the end of the document in that order
update_display(w) == [w EXCEPT !.queue = <<>>, !.doc = @ \o w.queue]

\* ---------------------------------------------------------------- Init
\* The state after ThreadUpdater(debug_type=...) on the main thread:
\* __init__ and init() have run, the timer exists and is not started.
Init ==
    /\ always_call = <<>> /\ latest_call = <<>>
    /\ every_call = <<>> /\ delay_call = <<>>
    /\ locks = [k \in {"always", "latest", "every", "delay"} |-> "none"]
    /\ running = FALSE
    /\ tmr = "inactive"
    /\ debug_type \in DebugTypes
    /\ connected = TRUE
    /\ timeout = DefaultTimeout
    /\ interval = MsOf(DefaultTimeout)
    /\ sigq = <<>>
    /\ now = 0
    /\ pc = [p \in Producers |-> "idle"]
    /\ req = [p \in Producers |-> NoReq]
    /\ drain = IdleDrain
    /\ hist = <<>>
    /\ nsub = 0 /\ nmain = 0 /\ ndrain = 0
    /\ mgr = MgrInit
    /\ attrs = NoAttrs
    /\ orphan = FALSE
    /\ widget = [k \in WidgetClasses |-> NewWidget]

\* The slot a queued signal runs on the main thread
SlotOp(sig, c) ==
    CASE sig = "starting" -> StartOp(c)
      [] sig = "stopping" -> StopOp(c, TRUE)
      [] OTHER -> CreateTimerOp(c)

\* An emission that is delivered before the ones already waiting
EmitInFront(q, sig) == IF connected THEN <<sig>> \o q ELSE q

\* start(), stop(), stop(set_state=False) or create_timer() past the test
\* of is_main_thread
DirectOp(op, c) ==
    CASE op = "start" -> StartOp(c)
      [] op = "stop" -> StopOp(c, TRUE)
      [] op = "stop_keep" -> StopOp(c, FALSE)
      [] OTHER -> CreateTimerOp(c)

\* A signal emitted on a producer thread is queued to the main thread for
\* the slot init() connected to it; a signal nothing is connected to is lost
Emit(q, sig) == IF connected THEN Append(q, sig) ELSE q

\* start(), stop() or create_timer() called on thread th with the control
\* state c and the signal queue q: "if not is_main_thread(): emit; return",
\* else the operation itself
ControlCall(op, th, c, q) ==
    IF is_main_thread(th)
    THEN [c |-> DirectOp(op, c), q |-> q]
    ELSE [c |-> c, q |-> Emit(q, SignalOf(op))]

\* The state after ThreadUpdater(debug_type=..., init_later=True) on the
\* main thread: __init__ has run and init() has not, so there is no timer
\* and the signals are not connected.
InitLater ==
    /\ always_call = <<>> /\ latest_call = <<>>
    /\ every_call = <<>> /\ delay_call = <<>>
    /\ locks = [k \in {"always", "latest", "every", "delay"} |-> "none"]
    /\ running = FALSE
    /\ tmr = "none"
    /\ debug_type \in DebugTypes
    /\ connected = FALSE
    /\ timeout = DefaultTimeout
    /\ interval = 0
    /\ sigq = <<>>
    /\ now = 0
    /\ pc = [p \in Producers |-> "idle"]
    /\ req = [p \in Producers |-> NoReq]
    /\ drain = IdleDrain
    /\ hist = <<>>
    /\ nsub = 0 /\ nmain = 0 /\ ndrain = 0
    /\ mgr = MgrInit
    /\ attrs = NoAttrs
    /\ orphan = FALSE
    /\ widget = [k \in WidgetClasses |-> NewWidget]

\* ------------------------------------------------------ producer threads
\* Producer p enters a method.  A control method emits its signal and
\* returns; delay reads the clock; the others go on to take the lock.
Begin(p, Ops, Fs, As, Ds, max) ==
    /\ pc[p] = "idle"
    /\ nsub < max
    /\ nsub' = nsub + 1
    /\ \E op \in Ops :
         IF op \in MarshalledOps
         THEN /\ sigq' = ControlCall(op, p, Ctl, sigq).q
              /\ running' = ControlCall(op, p, Ctl, sigq).c.running
              /\ tmr' = ControlCall(op, p, Ctl, sigq).c.tmr
              /\ orphan' = ControlCall(op, p, Ctl, sigq).c.orphan
              /\ interval' = ControlCall(op, p, Ctl, sigq).c.interval
              /\ UNCHANGED <<pc, req, hist>>
         ELSE \E func \in Fs,
                 a \in (IF op = "unregister_continuous" THEN {0} ELSE As),
                 d \in (IF op = "delay" THEN Ds ELSE {0}) :
              /\ UNCHANGED <<running, tmr, interval, orphan>>
              /\ IF NowCallsDirectly(op, p)
                 THEN /\ hist' = Append(hist, Ev("call", "now", func, a, 0, p,
                                                 DirectOutcome(func)))
                      /\ UNCHANGED <<pc, req, sigq>>
                 ELSE /\ req' = [req EXCEPT ![p] =
                                   [op |-> op, f |-> func, a |-> a, d |-> d,
                                    t0 |-> IF op = "delay" THEN now ELSE 0,
                                    restart |-> FALSE]]
                      /\ pc' = [pc EXCEPT ![p] = "lock"]
                      /\ UNCHANGED <<sigq, hist>>
    /\ UNCHANGED <<always_call, latest_call, every_call, delay_call, locks,
                   debug_type, mgr, attrs, widget, connected, timeout, now, drain, nmain, ndrain>>

\* "with self._xxx_lock:" entered
Acquire(p) ==
    /\ pc[p] = "lock"
    /\ locks[OpKind(req[p].op)] = "none"
    /\ locks' = [locks EXCEPT ![OpKind(req[p].op)] = p]
    /\ pc' = [pc EXCEPT ![p] = "cs"]
    /\ UNCHANGED <<always_call, latest_call, every_call, delay_call, running,
                   tmr, debug_type, mgr, attrs, orphan, widget, connected, timeout, interval, sigq, now, req, drain, hist, nsub, nmain,
                   ndrain>>

\* A with-block of a submission method that keeps its lock when it is left
ProducerKeepsLock(l, k) == l

\* The end of "with self._xxx_lock:" in a submission method releases the lock
ProducerRelease(l, k) == [l EXCEPT ![k] = "none"]

\* The statement under the lock, and the lock's release
Mutate(p) ==
    LET r == req[p]
        k == OpKind(r.op)
        hk == IF r.op = "unregister_continuous" THEN "unreg" ELSE k
        hx == IF k = "delay" THEN <<r.d, r.t0>> ELSE <<>>
    IN
    /\ pc[p] = "cs"
    /\ always_call' =
         IF r.op = "register_continuous" THEN AlwaysSet(always_call, r.f, r.a)
         ELSE IF r.op = "unregister_continuous" THEN AlwaysPop(always_call, r.f)
         ELSE always_call
    /\ latest_call' =
         IF k = "latest" THEN LatestSet(latest_call, r.f, r.a) ELSE latest_call
    /\ every_call' =
         IF k = "every" THEN EveryAppend(every_call, r.f, r.a) ELSE every_call
    /\ delay_call' =
         IF k = "delay" THEN DelayAppend(delay_call, r.t0, r.d, r.f, r.a)
         ELSE delay_call
    /\ locks' = ProducerRelease(locks, k)
    /\ hist' = Append(hist, Ev("sub", hk, r.f, r.a, Collected(k) + 1, "any", hx))
    /\ IF r.op = "unregister_continuous"
       THEN /\ pc' = [pc EXCEPT ![p] = "idle"]
            /\ req' = [req EXCEPT ![p] = NoReq]
       ELSE /\ pc' = [pc EXCEPT ![p] = "er_test"]
            /\ UNCHANGED req
    /\ UNCHANGED <<running, tmr, debug_type, mgr, attrs, orphan, widget, connected, timeout, interval, sigq, now, drain, nsub, nmain,
                   ndrain>>

\* ensure_running: "if not self.is_running():"
ErTest(p) ==
    /\ pc[p] = "er_test"
    /\ IF ~running
       THEN /\ pc' = [pc EXCEPT ![p] = "er_set"]
            /\ UNCHANGED req
       ELSE /\ pc' = [pc EXCEPT ![p] = "idle"]
            /\ req' = [req EXCEPT ![p] = NoReq]
    /\ UNCHANGED <<always_call, latest_call, every_call, delay_call, locks,
                   running, tmr, debug_type, mgr, attrs, orphan, widget, connected, timeout, interval, sigq, now, drain, hist, nsub,
                   nmain, ndrain>>

\* ensure_running: "self._running = True"
ErSet(p) ==
    /\ pc[p] = "er_set"
    /\ running' = TRUE
    /\ pc' = [pc EXCEPT ![p] = "er_emit"]
    /\ UNCHANGED <<always_call, latest_call, every_call, delay_call, locks,
                   tmr, debug_type, mgr, attrs, orphan, widget, connected, timeout, interval, sigq, now, req, drain, hist, nsub, nmain,
                   ndrain>>

\* ensure_running: "self.starting.emit()", queued to the main thread
ErEmit(p) ==
    /\ pc[p] = "er_emit"
    /\ sigq' = Emit(sigq, "starting")
    /\ pc' = [pc EXCEPT ![p] = "idle"]
    /\ req' = [req EXCEPT ![p] = NoReq]
    /\ UNCHANGED <<always_call, latest_call, every_call, delay_call, locks,
                   running, tmr, debug_type, mgr, attrs, orphan, widget, connected, timeout, interval, now, drain, hist, nsub, nmain,
                   ndrain>>

\* Producer p enters set_timeout(value): restart_on_change reads
\* is_running() and, for a running updater, calls stop(), which off the main
\* thread emits stopping and returns
StBegin(p, max) ==
    /\ pc[p] = "idle"
    /\ nsub < max
    /\ nsub' = nsub + 1
    /\ \E value \in Timeouts :
         req' = [req EXCEPT ![p] = [NoReq EXCEPT !.op = "set_timeout",
                                                !.a = value,
                                                !.restart = running]]
    /\ sigq' = IF running THEN Emit(sigq, "stopping") ELSE sigq
    /\ pc' = [pc EXCEPT ![p] = "st_set"]
    /\ UNCHANGED <<always_call, latest_call, every_call, delay_call, locks,
                   running, tmr, debug_type, mgr, attrs, orphan, widget, connected, timeout, interval, now,
                   drain, hist, nmain, ndrain>>

\* set_timeout's body on the producer thread: "self._timeout = value"
StSet(p) ==
    /\ pc[p] = "st_set"
    /\ timeout' = SetIntervalOp(Ctl, req[p].a).timeout
    /\ pc' = [pc EXCEPT ![p] = "st_int"]
    /\ UNCHANGED <<always_call, latest_call, every_call, delay_call, locks,
                   running, tmr, debug_type, mgr, attrs, orphan, widget, connected, interval, sigq, now, req,
                   drain, hist, nsub, nmain, ndrain>>

\* set_timeout's body on the producer thread: "self._tmr.setInterval(
\* int(self.get_timeout() * 1000))", with the timeout as it is now
StInterval(p) ==
    /\ pc[p] = "st_int"
    /\ interval' = SetIntervalOp(Ctl, timeout).interval
    /\ pc' = [pc EXCEPT ![p] = "st_start"]
    /\ UNCHANGED <<always_call, latest_call, every_call, delay_call, locks,
                   running, tmr, debug_type, mgr, attrs, orphan, widget, connected, timeout, sigq, now, req,
                   drain, hist, nsub, nmain, ndrain>>

\* restart_on_change after the body: start(), which off the main thread
\* emits starting and returns; set_timeout returns
StRestart(p) ==
    /\ pc[p] = "st_start"
    /\ sigq' = IF req[p].restart THEN Emit(sigq, "starting") ELSE sigq
    /\ pc' = [pc EXCEPT ![p] = "idle"]
    /\ req' = [req EXCEPT ![p] = NoReq]
    /\ UNCHANGED <<always_call, latest_call, every_call, delay_call, locks,
                   running, tmr, debug_type, mgr, attrs, orphan, widget, connected, timeout, interval, now,
                   drain, hist, nsub, nmain, ndrain>>

\* Code on the main thread calls set_timeout(value)
MainSetTimeout ==
    /\ drain.st = "idle"
    /\ nmain < MaxMainOps
    /\ nmain' = nmain + 1
    /\ \E value \in Timeouts :
         /\ running' = SetTimeoutOp(Ctl, value).running
         /\ tmr' = SetTimeoutOp(Ctl, value).tmr
         /\ orphan' = SetTimeoutOp(Ctl, value).orphan
         /\ timeout' = SetTimeoutOp(Ctl, value).timeout
         /\ interval' = SetTimeoutOp(Ctl, value).interval
    /\ UNCHANGED <<always_call, latest_call, every_call, delay_call, locks,
                   debug_type, mgr, attrs, widget, connected, sigq, now, pc, req, drain, hist, nsub,
                   ndrain>>

\* Code on the main thread assigns updater.timeout = v
MainAssignTimeout ==
    /\ drain.st = "idle"
    /\ nmain < MaxMainOps
    /\ nmain' = nmain + 1
    /\ \E v \in Timeouts :
         /\ attrs' = AssignTimeoutAttr(attrs, Ctl, v).attrs
         /\ running' = AssignTimeoutAttr(attrs, Ctl, v).c.running
         /\ tmr' = AssignTimeoutAttr(attrs, Ctl, v).c.tmr
         /\ orphan' = AssignTimeoutAttr(attrs, Ctl, v).c.orphan
         /\ timeout' = AssignTimeoutAttr(attrs, Ctl, v).c.timeout
         /\ interval' = AssignTimeoutAttr(attrs, Ctl, v).c.interval
    /\ UNCHANGED <<always_call, latest_call, every_call, delay_call, locks,
                   debug_type, mgr, widget, connected, sigq, now, pc, req, drain, hist,
                   nsub, ndrain>>

\* ------------------------------------------------------------ main thread
\* A timer that is inactive once it has fired
SingleShot(t) == "inactive"

\* create_timer: "self._tmr.setSingleShot(False)", the timer stays as it is
\* when it fires
TimerFired(t) == t

\* The timer's timeout signal calls run_update on the main thread.
Tick ==
    /\ drain.st = "idle"
    /\ tmr = "active"
    /\ ndrain < MaxDrains
    /\ ndrain' = ndrain + 1
    /\ drain' = [IdleDrain EXCEPT !.st = "lock", !.k = 1]
    /\ tmr' = TimerFired(tmr)
    /\ UNCHANGED <<always_call, latest_call, every_call, delay_call, locks,
                   running, debug_type, mgr, attrs, orphan, widget, connected, timeout, interval, sigq, now, pc, req, hist, nsub,
                   nmain>>

\* run_update: "with self._xxx_lock:" entered for the collection in turn
DrainAcquire ==
    /\ drain.st = "lock"
    /\ locks[Kinds[drain.k]] = "none"
    /\ locks' = [locks EXCEPT ![Kinds[drain.k]] = MainThread]
    /\ drain' = [drain EXCEPT !.st = "cs"]
    /\ UNCHANGED <<always_call, latest_call, every_call, delay_call, running,
                   tmr, debug_type, mgr, attrs, orphan, widget, connected, timeout, interval, sigq, now, pc, req, hist, nsub, nmain,
                   ndrain>>

\* Where run_update goes after the collection step for Kinds[i]
AfterCollect(dr) ==
    IF dr.k < Len(Kinds)
    THEN [dr EXCEPT !.st = "lock", !.k = dr.k + 1]
    ELSE [dr EXCEPT !.st = "exec"]

\* A with-block of run_update that keeps its lock when it is left
DrainKeepsLock(l, k) == l

\* run_update: the end of "with self._xxx_lock:" releases the lock
DrainRelease(l, k) == [l EXCEPT ![k] = "none"]

\* run_update: the copy, swap or partition made under the lock, and the
\* lock's release
DrainCollect ==
    LET k == Kinds[drain.k] IN
    /\ drain.st = "cs"
    /\ locks' = DrainRelease(locks, k)
    /\ drain' = AfterCollect(
         CASE k = "always" -> [drain EXCEPT !.always = AlwaysCopy(always_call)]
           [] k = "latest" -> [drain EXCEPT !.latest = LatestSwap(latest_call).taken]
           [] k = "every" -> [drain EXCEPT !.main = EverySwap(every_call).taken]
           [] OTHER -> [drain EXCEPT !.delayed = DelayTake(delay_call, now)])
    /\ latest_call' = IF k = "latest" THEN LatestSwap(latest_call).left
                      ELSE latest_call
    /\ every_call' = IF k = "every" THEN EverySwap(every_call).left
                     ELSE every_call
    /\ delay_call' = IF k = "delay" THEN DelayRest(delay_call, now)
                     ELSE delay_call
    /\ hist' = IF k = "delay"
               THEN Append(hist, Ev("part", "delay", "f", 0, ndrain, MainThread, now))
               ELSE hist
    /\ UNCHANGED <<always_call, running, tmr, debug_type, mgr, attrs, orphan, widget, connected, timeout, interval, sigq, now, pc, req,
                   nsub, nmain, ndrain>>

\* run_update's four loops: is anything left to call
DrainLeft(dr) ==
    dr.delayed # <<>> \/ dr.always # <<>> \/ dr.latest # <<>> \/ dr.main # <<>>

\* run_update's four loops: the call that comes next
DrainHead(dr) ==
    IF dr.delayed # <<>>
    THEN [k |-> "delay", f |-> dr.delayed[1].f, a |-> dr.delayed[1].a]
    ELSE IF dr.always # <<>>
    THEN [k |-> "always", f |-> dr.always[1].f, a |-> dr.always[1].a]
    ELSE IF dr.latest # <<>>
    THEN [k |-> "latest", f |-> dr.latest[1].f, a |-> dr.latest[1].a]
    ELSE [k |-> "every", f |-> dr.main[1].f, a |-> dr.main[1].li[1]]

\* run_update's four loops: the locals once that call is made
DrainTail(dr) ==
    IF dr.delayed # <<>> THEN [dr EXCEPT !.delayed = Tail(@)]
    ELSE IF dr.always # <<>> THEN [dr EXCEPT !.always = Tail(@)]
    ELSE IF dr.latest # <<>> THEN [dr EXCEPT !.latest = Tail(@)]
    ELSE IF Len(dr.main[1].li) > 1 THEN [dr EXCEPT !.main[1].li = Tail(@)]
    ELSE [dr EXCEPT !.main = Tail(@)]

\* run_update that goes on with the next entry whatever the outcome
DrainAfterGoesOn(dr, x) == DrainTail(dr)

\* run_update that never returns once an exception has left a with-block
DrainAfterStuck(dr, x) ==
    IF x = "escaped" THEN [dr EXCEPT !.st = "dead"] ELSE DrainTail(dr)

\* run_update after one call with outcome x: an exception that leaves the
\* with-block leaves run_update, and its locals are gone
DrainAfter(dr, x) == IF x = "escaped" THEN IdleDrain ELSE DrainTail(dr)

\* run_update: "with self.handle_error(func): func(*args, **kwargs)"
DrainExec ==
    /\ drain.st = "exec"
    /\ DrainLeft(drain)
    /\ ~Resubmits(DrainHead(drain).f)
    /\ LET c == DrainHead(drain)
           x == HandleError(debug_type, c.f)
       IN  /\ hist' = Append(hist, Ev("call", c.k, c.f, c.a, ndrain, MainThread, x))
           /\ drain' = DrainAfter(drain, x)
           /\ widget' = IF c.f \in WidgetClasses
                         THEN [widget EXCEPT ![c.f] = update_display(@)]
                         ELSE widget
    /\ UNCHANGED <<always_call, latest_call, every_call, delay_call, locks,
                   running, tmr, debug_type, mgr, attrs, orphan, connected, timeout, interval, sigq, now, pc, req, nsub, nmain,
                   ndrain>>

\* run_update returns
DrainReturn ==
    /\ drain.st = "exec"
    /\ ~DrainLeft(drain)
    /\ drain' = IdleDrain
    /\ UNCHANGED <<always_call, latest_call, every_call, delay_call, locks,
                   running, tmr, debug_type, mgr, attrs, orphan, widget, connected, timeout, interval, sigq, now, pc, req, hist, nsub,
                   nmain, ndrain>>

\* run_update invokes a callable that calls a method of the updater: the
\* call is made on the main thread, inside run_update's loop; delay reads
\* the clock before it takes the lock
ReBegin ==
    /\ drain.st = "exec"
    /\ DrainLeft(drain)
    /\ Resubmits(DrainHead(drain).f)
    /\ \E op \in ReOps :
         drain' = [drain EXCEPT
                     !.st = IF op = "ensure_running" THEN "re_er" ELSE "re_lock",
                     !.re = op,
                     !.t0 = IF op = "delay" THEN now ELSE 0]
    /\ LET c == DrainHead(drain)
       IN  hist' = Append(hist, Ev("call", c.k, c.f, c.a, ndrain, MainThread,
                                   HandleError(debug_type, c.f)))
    /\ UNCHANGED <<always_call, latest_call, every_call, delay_call, locks,
                   running, tmr, debug_type, mgr, attrs, orphan, widget, connected, timeout, interval,
                   sigq, now, pc, req, nsub, nmain, ndrain>>

\* The submission method called by the callable enters "with self._xxx_lock:"
ReAcquire ==
    /\ drain.st = "re_lock"
    /\ locks[OpKind(drain.re)] = "none"
    /\ locks' = [locks EXCEPT ![OpKind(drain.re)] = MainThread]
    /\ drain' = [drain EXCEPT !.st = "re_cs"]
    /\ UNCHANGED <<always_call, latest_call, every_call, delay_call, running,
                   tmr, debug_type, mgr, attrs, orphan, widget, connected, timeout, interval, sigq, now,
                   pc, req, hist, nsub, nmain, ndrain>>

\* The statement under the lock, made for the callable itself with its own
\* argument (and zero seconds for delay), and the lock's release
ReMutate ==
    LET c == DrainHead(drain)
        k == OpKind(drain.re)
        hx == IF k = "delay" THEN <<0, drain.t0>> ELSE <<>>
    IN
    /\ drain.st = "re_cs"
    /\ always_call' = IF k = "always" THEN AlwaysSet(always_call, c.f, c.a)
                      ELSE always_call
    /\ latest_call' = IF k = "latest" THEN LatestSet(latest_call, c.f, c.a)
                      ELSE latest_call
    /\ every_call' = IF k = "every" THEN EveryAppend(every_call, c.f, c.a)
                     ELSE every_call
    /\ delay_call' = IF k = "delay"
                     THEN DelayAppend(delay_call, drain.t0, 0, c.f, c.a)
                     ELSE delay_call
    /\ locks' = ProducerRelease(locks, k)
    /\ hist' = Append(hist, Ev("sub", k, c.f, c.a, Collected(k) + 1,
                               MainThread, hx))
    /\ drain' = [drain EXCEPT !.st = "re_er"]
    /\ UNCHANGED <<running, tmr, debug_type, mgr, attrs, orphan, widget, connected, timeout, interval,
                   sigq, now, pc, req, nsub, nmain, ndrain>>

\* ensure_running called on the main thread: the starting signal is emitted
\* on the thread the updater lives in, so the connected slot start() runs
\* before emit() returns
EnsureRunningOnMain(c) ==
    IF c.running THEN c
    ELSE IF connected THEN StartOp([c EXCEPT !.running = TRUE])
    ELSE [c EXCEPT !.running = TRUE]

\* ensure_running at the end of the submission method (or called by the
\* callable itself); the method and the callable return and run_update goes
\* on with its loops
ReEnsure ==
    /\ drain.st = "re_er"
    /\ running' = EnsureRunningOnMain(Ctl).running
    /\ tmr' = EnsureRunningOnMain(Ctl).tmr
    /\ orphan' = EnsureRunningOnMain(Ctl).orphan
    /\ interval' = EnsureRunningOnMain(Ctl).interval
    /\ drain' = [DrainTail(drain) EXCEPT !.st = "exec", !.re = "none",
                                         !.t0 = 0]
    /\ UNCHANGED <<always_call, latest_call, every_call, delay_call, locks,
                   debug_type, mgr, attrs, widget, connected, timeout, sigq, now, pc, req, hist,
                   nsub, nmain, ndrain>>

ReStep == ReBegin \/ ReAcquire \/ ReMutate \/ ReEnsure

\* The main event loop delivers the oldest queued signal
ProcessSignal ==
    /\ drain.st = "idle"
    /\ sigq # <<>>
    /\ running' = SlotOp(Head(sigq), Ctl).running
    /\ tmr' = SlotOp(Head(sigq), Ctl).tmr
    /\ orphan' = SlotOp(Head(sigq), Ctl).orphan
    /\ interval' = SlotOp(Head(sigq), Ctl).interval
    /\ sigq' = Tail(sigq)
    /\ UNCHANGED <<always_call, latest_call, every_call, delay_call, locks,
                   debug_type, mgr, attrs, widget, connected, timeout, now, pc, req, drain, hist, nsub, nmain, ndrain>>

\* Code on the main thread (not a submitted callable) calls now_call_latest
\* or now_call_in_main: the target runs at once, in the caller
MainNowCall(Fs) ==
    /\ drain.st = "idle"
    /\ nmain < MaxMainOps
    /\ nmain' = nmain + 1
    /\ \E op \in NowOps, func \in Fs, a \in {1} :
         /\ NowCallsDirectly(op, MainThread)
         /\ hist' = Append(hist, Ev("call", "now", func, a, 0, MainThread,
                                    DirectOutcome(func)))
    /\ UNCHANGED <<always_call, latest_call, every_call, delay_call, locks,
                   running, tmr, debug_type, mgr, attrs, orphan, widget, connected, timeout, interval, sigq, now, pc, req, drain, nsub,
                   ndrain>>

\* Code on the main thread calls start(), stop() or create_timer()
MainControl(Ops, max) ==
    /\ drain.st = "idle"
    /\ nmain < max
    /\ nmain' = nmain + 1
    /\ \E op \in Ops :
         /\ running' = ControlCall(op, MainThread, Ctl, sigq).c.running
         /\ tmr' = ControlCall(op, MainThread, Ctl, sigq).c.tmr
         /\ orphan' = ControlCall(op, MainThread, Ctl, sigq).c.orphan
         /\ interval' = ControlCall(op, MainThread, Ctl, sigq).c.interval
         /\ sigq' = ControlCall(op, MainThread, Ctl, sigq).q
    /\ UNCHANGED <<always_call, latest_call, every_call, delay_call, locks,
                   debug_type, mgr, attrs, widget, connected, timeout, now, pc, req, drain, hist, nsub, ndrain>>

\* The clock advances
Advance ==
    /\ now < MaxTime
    /\ now' = now + 1
    /\ UNCHANGED <<always_call, latest_call, every_call, delay_call, locks,
                   running, tmr, debug_type, mgr, attrs, orphan, widget, connected, timeout, interval, sigq, pc, req, drain, hist, nsub,
                   nmain, ndrain>>

ProducerStep(p) ==
    \/ Acquire(p) \/ Mutate(p) \/ ErTest(p) \/ ErSet(p) \/ ErEmit(p)

MainStep ==
    \/ Tick \/ DrainAcquire \/ DrainCollect \/ DrainExec \/ DrainReturn
    \/ ProcessSignal

\* ------------------------------------------------------- specifications
\* A producer calling every submission method, code on the main thread
\* calling the now_call methods, and the timer.
Next ==
    \/ \E p \in {"p1"} :
         Begin(p, SubmitOps \cup {"unregister_continuous"}, {"f", "bad"}, {1}, {0},
               MaxSubmit)
    \/ \E p \in {"p1"} : ProducerStep(p)
    \/ MainStep
    \/ MainNowCall({"f", "bad"})

Spec == Init /\ [][Next]_vars

\* One producer that only calls call_latest, and the timer.
NextLatest ==
    \/ \E p \in {"p1"} :
         Begin(p, {"call_latest"}, {"f", "part"}, Args, Delays, MaxSubmit)
    \/ \E p \in {"p1"} : ProducerStep(p)
    \/ MainStep

SpecLatest == Init /\ [][NextLatest]_vars

\* Two producers that only call call_in_main, and the timer.
NextQueued ==
    \/ \E p \in Producers :
         Begin(p, {"call_in_main"}, {"f", "part"}, Args, Delays, MaxSubmit)
    \/ \E p \in Producers : ProducerStep(p)
    \/ MainStep

SpecQueued == Init /\ [][NextQueued]_vars

\* One producer that only registers and unregisters continuous callbacks.
NextContinuous ==
    \/ \E p \in {"p1"} :
         Begin(p, {"register_continuous", "unregister_continuous"},
               {"f", "part"}, Args, Delays, MaxSubmit)
    \/ \E p \in {"p1"} : ProducerStep(p)
    \/ MainStep

SpecContinuous == Init /\ [][NextContinuous]_vars

\* Two producers that call the four submission methods, and the timer.
NextMixed ==
    \/ \E p \in Producers :
         Begin(p, {"delay", "register_continuous", "call_latest", "call_in_main"},
               {"f", "part"}, {1}, {0, 1}, MaxSubmit)
    \/ \E p \in Producers : ProducerStep(p)
    \/ MainStep

SpecMixed == Init /\ [][NextMixed]_vars

\* One producer that only calls delay, the clock and the timer.
NextDelay ==
    \/ \E p \in {"p1"} :
         Begin(p, {"delay"}, {"f", "part"}, {1}, Delays, MaxSubmit)
    \/ \E p \in {"p1"} : ProducerStep(p)
    \/ MainStep
    \/ Advance

SpecDelay == Init /\ [][NextDelay]_vars

\* Two producers and code on the main thread that call start, stop,
\* create_timer and set_timeout, the producers also call_latest, and the
\* timer.
NextControl ==
    \/ \E p \in Producers :
         Begin(p, {"call_latest"} \cup ControlOps, {"f"}, {1}, {0}, MaxSubmit)
    \/ \E p \in Producers : StBegin(p, MaxSubmit)
    \/ \E p \in Producers :
         ProducerStep(p) \/ StSet(p) \/ StInterval(p) \/ StRestart(p)
    \/ MainStep
    \/ MainControl(ControlOps, MaxMainOps)
    \/ MainSetTimeout

SpecControl == Init /\ [][NextControl]_vars

\* An updater made with init_later=True or without it: code on the main
\* thread that calls start, stop and create_timer, one after the other, a
\* producer that calls call_latest, and the timer.
NextLater ==
    \/ \E p \in {"p1"} : Begin(p, {"call_latest"}, {"f"}, {1}, {0}, MaxSubmit)
    \/ \E p \in {"p1"} : ProducerStep(p)
    \/ MainStep
    \/ MainControl(ControlOps, MaxControl)

SpecLater == (Init \/ InitLater) /\ [][NextLater]_vars

\* One producer that makes up to MaxOrder submissions, by any of the four
\* submission methods, for two targets, each with the number of the
\* submission as its argument, and the timer.
NextOrder ==
    \/ \E p \in {"p1"} :
         Begin(p, {"delay", "register_continuous", "call_latest", "call_in_main"},
               {"f", "part"}, {nsub + 1}, {0}, MaxOrder)
    \/ \E p \in {"p1"} : ProducerStep(p)
    \/ MainStep

SpecOrder == Init /\ [][NextOrder]_vars

\* Two producers that race through call_latest, call_in_main and delay on a
\* stopped updater, the clock and the timer; the main thread's event loop
\* keeps delivering queued signals and timer ticks, every thread inside a
\* method goes on, and time passes.
NextLive ==
    \/ \E p \in Producers :
         Begin(p, {"delay", "call_latest", "call_in_main"}, {"f", "part"}, {1},
               {1}, MaxSubmit)
    \/ \E p \in Producers : ProducerStep(p)
    \/ MainStep
    \/ Advance

\* The main event loop keeps delivering timer ticks and queued signals,
\* run_update and every producer inside a method go on
FairTimer ==
    /\ WF_vars(Tick)
    /\ WF_vars(ProcessSignal)
    /\ WF_vars(DrainAcquire \/ DrainCollect \/ DrainExec \/ DrainReturn)
    /\ \A p \in Producers : WF_vars(ProducerStep(p))

FairLive == FairTimer /\ WF_vars(Advance)

SpecLive == Init /\ [][NextLive]_vars /\ FairLive

\* One producer that only calls call_latest, and the timer, with the main
\* event loop and the producer going on.
SpecIdle == Init /\ [][NextLatest]_vars /\ FairTimer

\* Two producers and code on the main thread that call start, stop,
\* create_timer and set_timeout, and the timer, with the main event loop and
\* the producers going on.
SpecMarshal == Init /\ [][NextControl]_vars /\ FairTimer

\* A producer that calls call_latest and call_in_main with a callable that
\* calls the updater back and with one that raises and has no __name__, and
\* the timer, with the
\* main event loop, the callable and the producer going on.
NextReentrant ==
    \/ \E p \in {"p1"} :
         Begin(p, {"call_latest", "call_in_main"}, {"part", "again"}, {1}, {0},
               MaxSubmit)
    \/ \E p \in {"p1"} : ProducerStep(p)
    \/ MainStep
    \/ ReStep

FairReentrant == FairTimer /\ WF_vars(ReStep)

SpecReentrant == Init /\ [][NextReentrant]_vars /\ FairReentrant

\* A producer that registers and unregisters a callable and one that raises
\* and has no __name__, and the timer.
NextUnregister ==
    \/ \E p \in {"p1"} :
         Begin(p, {"register_continuous", "unregister_continuous"},
               {"f", "part"}, {1}, {0}, MaxUnreg)
    \/ \E p \in {"p1"} : ProducerStep(p)
    \/ MainStep

SpecUnregister == Init /\ [][NextUnregister]_vars

\* The threads of the program calling get_updater and set_updater (or
\* cleanup_app) and storing calls in the updater they got; the updater made
\* by the manager's constructor is left alone.
NextManager ==
    \/ \E t \in Callers : GetBegin(t)
    \/ \E t \in Callers : GetAcquire(t)
    \/ \E t \in Callers : GetTest(t)
    \/ \E t \in Callers : GetCreate(t)
    \/ \E t \in Callers : GetInit(t)
    \/ \E t \in Callers : GetReturn(t)
    \/ \E t \in Callers : StoreWork(t)
    \/ \E t \in Callers : SetBegin(t)
    \/ \E t \in Callers : SetAcquire(t)
    \/ \E t \in Callers : SetWrite(t)

SpecManager == Init /\ [][NextManager]_vars

\* A producer that calls delay, code on the main thread that assigns the
\* updater's timeout attribute, the timer and the clock.
NextAttr ==
    \/ \E p \in {"p1"} : Begin(p, {"delay"}, {"f"}, {1}, {0, 1}, MaxSubmit)
    \/ \E p \in {"p1"} : ProducerStep(p)
    \/ MainStep
    \/ MainAssignTimeout
    \/ Advance

SpecAttr == Init /\ [][NextAttr]_vars

\* A producer that calls delay with zero or one second, each call with its
\* own argument, for a callable or for one that raises, the timer and the
\* clock.
NextPartition ==
    \/ \E p \in {"p1"} :
         Begin(p, {"delay"}, {"f", "part"}, {nsub + 1}, {0, 1}, MaxOrder)
    \/ \E p \in {"p1"} : ProducerStep(p)
    \/ MainStep
    \/ Advance

SpecPartition == Init /\ [][NextPartition]_vars

\* Two producers that call call_latest and stop(set_state=False), code on
\* the main thread that calls start() and stop(set_state=False), and the
\* timer: nothing calls stop() or stop(set_state=True).
NextStopKeep ==
    \/ \E p \in Producers :
         Begin(p, {"call_latest", "stop_keep"}, {"f"}, {1}, {0}, MaxSubmit)
    \/ \E p \in Producers : ProducerStep(p)
    \/ MainStep
    \/ MainControl({"start", "stop_keep"}, MaxControl)

SpecStopKeep == Init /\ [][NextStopKeep]_vars

\* ------------------------------------------------------ reading the history
\* The calls run_update call j made from collection k (for target func)
Calls(j, k) ==
    SelectSeq(hist, LAMBDA ev : ev.e = "call" /\ ev.n = j /\ ev.k = k)
CallsOf(j, k, func) ==
    SelectSeq(hist, LAMBDA ev : ev.e = "call" /\ ev.n = j /\ ev.k = k /\ ev.f = func)

\* The submissions for func made to collection k that run_update call j collects
Subs(j, k, func) ==
    SelectSeq(hist, LAMBDA ev : ev.e = "sub" /\ ev.n = j /\ ev.k = k /\ ev.f = func)

ArgsOf(s) == [i \in 1..Len(s) |-> s[i].a]
IsPrefix(s, t) == Len(s) <= Len(t) /\ \A i \in 1..Len(s) : s[i] = t[i]

\* run_update call j has returned, or was left by an exception
DrainDone(j) == j < ndrain \/ (j = ndrain /\ drain.st = "idle")

\* The place of each collection in run_update's execution order
ExecIdx(k) == CASE k = "delay" -> 1 [] k = "always" -> 2
                [] k = "latest" -> 3 [] OTHER -> 4

\* An exception left run_update call j while it ran an entry of collection
\* k or of a collection that runs before k
EscapedBy(j, k) ==
    \E i \in 1..Len(hist) :
        /\ hist[i].e = "call" /\ hist[i].n = j /\ hist[i].k # "now"
        /\ hist[i].x = "escaped"
        /\ ExecIdx(hist[i].k) <= ExecIdx(k)

Escaped(j) == EscapedBy(j, "every")

\* ------------------------------------------------------------------ claims
\* C1 (as stated, for an updater whose debug_type is RAISE_ERROR): when
\* call_latest(f, a1), ..., call_latest(f, an) are submitted with no drain
\* between them, the next drain invokes f through the latest collection
\* exactly once, with an, and no drain invokes f through the latest
\* collection without a new submission.
C1_LatestWins ==
    \A j \in 1..ndrain, func \in Funcs :
        (debug_type = RAISE_ERROR /\ DrainDone(j)) =>
            LET S == Subs(j, "latest", func)
                C == CallsOf(j, "latest", func)
            IN  IF S = <<>> THEN C = <<>>
                ELSE ArgsOf(C) = <<S[Len(S)].a>>

\* C1 (amended): the next drain invokes f through the latest collection at
\* most once and only with an, never without a submission; it invokes f
\* exactly once unless an exception left that drain while it ran a delayed,
\* continuous or latest entry.
C1_LatestWinsUnlessAborted ==
    \A j \in 1..ndrain, func \in Funcs :
        LET S == Subs(j, "latest", func)
            C == CallsOf(j, "latest", func)
        IN  IF S = <<>> THEN C = <<>>
            ELSE /\ ArgsOf(C) \in {<<>>, <<S[Len(S)].a>>}
                 /\ (DrainDone(j) /\ C = <<>>) => EscapedBy(j, "latest")

\* C1 witness: two submissions for one target with different arguments were
\* collected by one drain, which made one call with the second's arguments.
C1_Witness ==
    \E j \in 1..ndrain, func \in Funcs :
        LET S == Subs(j, "latest", func)
        IN  /\ DrainDone(j)
            /\ Len(S) = 2 /\ S[1].a # S[2].a
            /\ ArgsOf(CallsOf(j, "latest", func)) = <<S[2].a>>

\* C2 (as stated, for an updater whose debug_type is RAISE_ERROR): when
\* call_in_main(f, a1), ..., call_in_main(f, an) are submitted with no drain
\* between them, the next drain invokes f exactly n times with a1, ..., an
\* in submission order.
C2_QueuedPreservesAll ==
    \A j \in 1..ndrain, func \in Funcs :
        (debug_type = RAISE_ERROR /\ DrainDone(j)) =>
            ArgsOf(CallsOf(j, "every", func)) = ArgsOf(Subs(j, "every", func))

\* C2 (amended): the next drain invokes f with a1, ..., ak in submission
\* order for some k <= n (nothing collapsed or reordered), and k = n unless
\* an exception left that drain.
C2_QueuedPreservesAllUnlessAborted ==
    \A j \in 1..ndrain, func \in Funcs :
        LET S == ArgsOf(Subs(j, "every", func))
            C == ArgsOf(CallsOf(j, "every", func))
        IN  /\ IsPrefix(C, S)
            /\ (DrainDone(j) /\ C # S) => Escaped(j)

\* C2 witness: one drain collected two submissions for one target with
\* different arguments and made both calls, in submission order.
C2_Witness ==
    \E j \in 1..ndrain, func \in Funcs :
        LET S == ArgsOf(Subs(j, "every", func))
        IN  /\ DrainDone(j)
            /\ Len(S) = 2 /\ S[1] # S[2]
            /\ ArgsOf(CallsOf(j, "every", func)) = S

\* Every call made from collection k for func, over all drains, and every
\* submission made to collection k for func, in the order the lock was taken
AllCallsOf(k, func) ==
    SelectSeq(hist, LAMBDA ev : ev.e = "call" /\ ev.k = k /\ ev.f = func)
AllSubs(k, func) ==
    SelectSeq(hist, LAMBDA ev : ev.e = "sub" /\ ev.k = k /\ ev.f = func)

\* Queued submissions are invoked in lock order, each by the drain that
\* collected it, none twice, none skipped once that drain is over
QueuedFifo ==
    \A func \in Funcs :
        /\ IsPrefix(ArgsOf(AllCallsOf("every", func)), ArgsOf(AllSubs("every", func)))
        /\ \A j \in 1..ndrain :
              /\ Len(CallsOf(j, "every", func)) <= Len(Subs(j, "every", func))
              /\ DrainDone(j) =>
                    Len(CallsOf(j, "every", func)) = Len(Subs(j, "every", func))

\* C3: under any interleaving of producers calling call_in_main with drains,
\* with debug_type PRINT_ERROR or HIDE_ERROR, every queued submission is
\* collected by exactly one drain and invoked exactly once, and the
\* invocations of a target occur in the order in which the submissions took
\* the lock.
C3_QueuedFifoUnderPrintOrHide ==
    debug_type \in {PRINT_ERROR, HIDE_ERROR} => QueuedFifo

\* The same for HIDE_ERROR, and for PRINT_ERROR as long as no failing
\* target lacks __name__
QueuedFifoWhenHandled ==
    (/\ debug_type \in {PRINT_ERROR, HIDE_ERROR}
     /\ \A i \in 1..Len(hist) :
           hist[i].e = "call" => hist[i].x # "escaped") => QueuedFifo

\* Two producers' submissions for one target, with different arguments, were
\* collected by different drains and all invoked in lock order
QueuedFifoWitness ==
    \E func \in Funcs :
        LET S == AllSubs("every", func)
        IN  /\ Len(S) = 2 /\ S[1].a # S[2].a /\ S[1].n # S[2].n
            /\ ArgsOf(AllCallsOf("every", func)) = ArgsOf(S)

\* The register_continuous and unregister_continuous calls for func that
\* took the lock before run_update call j copied the continuous collection
RegSubs(j, func) ==
    SelectSeq(hist, LAMBDA ev : /\ ev.e = "sub" /\ ev.k \in {"always", "unreg"}
                                /\ ev.f = func /\ ev.n <= j)
Registered(j, func) ==
    RegSubs(j, func) # <<>> /\ RegSubs(j, func)[Len(RegSubs(j, func))].k = "always"
RegArgs(j, func) == RegSubs(j, func)[Len(RegSubs(j, func))].a

\* C4 (as stated, for an updater whose debug_type is RAISE_ERROR): after
\* register_continuous(f, args) every drain invokes f exactly once through
\* the continuous collection, with the most recently registered arguments;
\* after unregister_continuous(f) no drain that starts afterwards does.
C4_ContinuousPersistence ==
    \A j \in 1..ndrain, func \in Funcs :
        (debug_type = RAISE_ERROR /\ DrainDone(j)) =>
            IF Registered(j, func)
            THEN ArgsOf(CallsOf(j, "always", func)) = <<RegArgs(j, func)>>
            ELSE CallsOf(j, "always", func) = <<>>

\* C4 (amended): every drain invokes a registered f through the continuous
\* collection at most once and only with the most recently registered
\* arguments, exactly once unless an exception left that drain while it ran
\* a delayed or continuous entry; a drain that copies the collection after
\* unregister_continuous(f), or before any registration, does not invoke f.
C4_ContinuousPersistenceUnlessAborted ==
    \A j \in 1..ndrain, func \in Funcs :
        LET C == CallsOf(j, "always", func)
        IN  IF Registered(j, func)
            THEN /\ ArgsOf(C) \in {<<>>, <<RegArgs(j, func)>>}
                 /\ (DrainDone(j) /\ C = <<>>) => EscapedBy(j, "always")
            ELSE C = <<>>

\* C4 witness: a target registered twice with different arguments before
\* the first drain was invoked once by each of two drains, both times with
\* the arguments of the second registration.
C4_Witness ==
    \E func \in Funcs :
        LET R == RegSubs(1, func)
        IN  /\ ndrain = 2 /\ DrainDone(2)
            /\ Len(R) = 2 /\ R[1].k = "always" /\ R[2].k = "always"
            /\ R[1].a # R[2].a
            /\ ArgsOf(CallsOf(1, "always", func)) = <<R[2].a>>
            /\ ArgsOf(CallsOf(2, "always", func)) = <<R[2].a>>

\* run_update call j has partitioned the delayed list, at clock value PartTime(j)
HasPart(j) == \E i \in 1..Len(hist) : hist[i].e = "part" /\ hist[i].n = j
PartTime(j) ==
    hist[CHOOSE i \in 1..Len(hist) : hist[i].e = "part" /\ hist[i].n = j].x

\* The delay submission ev = delay(d, f) made at t0 (x = <<d, t0>>) was in
\* the list when run_update call j partitioned it, at a time t with t - t0 >= d
EligibleAt(ev, j) ==
    /\ HasPart(j) /\ ev.n <= j
    /\ PartTime(j) - ev.x[2] >= ev.x[1]
FirstEligibleAt(ev, j) ==
    EligibleAt(ev, j) /\ \A i \in 1..(j - 1) : ~EligibleAt(ev, i)

\* The delay submissions for func that run_update call j is the first to
\* find eligible
DueIn(j, func) ==
    Cardinality({i \in 1..Len(hist) :
        /\ hist[i].e = "sub" /\ hist[i].k = "delay" /\ hist[i].f = func
        /\ FirstEligibleAt(hist[i], j)})

\* C5 (as stated, for an updater whose debug_type is RAISE_ERROR): a call
\* submitted with delay(d, f) at time t0 is not invoked by a drain that runs
\* at a time t with t - t0 < d, and is invoked exactly once, by the first
\* drain that runs at a time t with t - t0 >= d, and by no later drain.
C5_DelayedEligibility ==
    \A j \in 1..ndrain, func \in Funcs :
        (debug_type = RAISE_ERROR /\ DrainDone(j)) =>
            Len(CallsOf(j, "delay", func)) = DueIn(j, func)

\* C5 (amended): a delayed call is invoked by no drain that runs at a time t
\* with t - t0 < d and by no drain other than the first one that runs at a
\* time t with t - t0 >= d; that drain removes it and invokes it exactly
\* once, unless an exception left that drain while it ran a delayed entry.
C5_DelayedEligibilityUnlessAborted ==
    \A j \in 1..ndrain, func \in Funcs :
        /\ Len(CallsOf(j, "delay", func)) <= DueIn(j, func)
        /\ (DrainDone(j) /\ Len(CallsOf(j, "delay", func)) < DueIn(j, func))
              => EscapedBy(j, "delay")

\* C5 witness: a call submitted with a positive delay was in the list when
\* the first drain ran too early for it, was not invoked then, and was
\* invoked once by the second drain, which ran late enough.
C5_Witness ==
    \E i \in 1..Len(hist) :
        /\ hist[i].e = "sub" /\ hist[i].k = "delay" /\ hist[i].x[1] > 0
        /\ hist[i].n = 1 /\ HasPart(1) /\ ~EligibleAt(hist[i], 1)
        /\ FirstEligibleAt(hist[i], 2) /\ DrainDone(2)
        /\ CallsOf(1, "delay", hist[i].f) = <<>>
        /\ Len(CallsOf(2, "delay", hist[i].f)) = 1

\* No exception has left a with-block of run_update
NoEscape ==
    \A i \in 1..Len(hist) :
        (hist[i].e = "call" /\ hist[i].k # "now") => hist[i].x # "escaped"

\* C6: with debug_type HIDE_ERROR or PRINT_ERROR no callable's failure
\* escapes run_update, and every other callable collected by that drain is
\* still invoked in it; in particular every drain invokes every registered
\* continuous callback, whatever the callbacks registered before it do.
C6_ErrorIsolation ==
    debug_type \in {PRINT_ERROR, HIDE_ERROR} =>
        /\ NoEscape
        /\ \A j \in 1..ndrain, func \in Funcs :
              DrainDone(j) =>
                 /\ Registered(j, func) => Len(CallsOf(j, "always", func)) = 1
                 /\ Subs(j, "latest", func) # <<>> =>
                        Len(CallsOf(j, "latest", func)) = 1
                 /\ Len(CallsOf(j, "every", func)) = Len(Subs(j, "every", func))
                 /\ Len(CallsOf(j, "delay", func)) = DueIn(j, func)

\* Error isolation as far as the handler is concerned: it holds for
\* HIDE_ERROR (C6_ErrorIsolation fails for PRINT_ERROR only)
ErrorIsolationUnderHide ==
    debug_type = HIDE_ERROR => C6_ErrorIsolation

\* A failing callable was caught under HIDE_ERROR and the callables
\* collected with it were invoked by the same drain
ErrorIsolationUnderHideWitness ==
    /\ debug_type = HIDE_ERROR
    /\ \E i \in 1..Len(hist) :
          /\ hist[i].e = "call" /\ hist[i].x = "caught"
          /\ \E m \in (i + 1)..Len(hist) :
                hist[m].e = "call" /\ hist[m].n = hist[i].n /\ hist[m].x = "ok"

\* An exception left run_update call j at history entry i
EscapedAt(j, i) ==
    /\ hist[i].e = "call" /\ hist[i].n = j /\ hist[i].k # "now"
    /\ hist[i].x = "escaped"

\* run_update made no call after the one an exception left it at, and the
\* one-shot entries it had removed are invoked by no later drain: a later
\* drain's one-shot calls are all accounted for by what it collected itself
AbortDropsOneShots ==
    \A j \in 1..ndrain :
        /\ \A i \in 1..Len(hist) : EscapedAt(j, i) =>
              \A m \in (i + 1)..Len(hist) :
                  ~(hist[m].e = "call" /\ hist[m].n = j)
        /\ Escaped(j) => \A j2 \in (j + 1)..ndrain, func \in Funcs :
              /\ Len(CallsOf(j2, "latest", func)) <=
                    (IF Subs(j2, "latest", func) # <<>> THEN 1 ELSE 0)
              /\ Len(CallsOf(j2, "every", func)) <= Len(Subs(j2, "every", func))
              /\ Len(CallsOf(j2, "delay", func)) <= DueIn(j2, func)

\* C7 (as stated): with debug_type RAISE_ERROR, when a callable fails during
\* a drain no callable later in that drain's execution order is invoked, the
\* latest, queued and eligible delayed entries the drain had removed are
\* never invoked by a later drain, and the continuous entries remain
\* registered and are invoked again by the next drain.
C7_RaiseAbortsDrain ==
    debug_type = RAISE_ERROR =>
        /\ AbortDropsOneShots
        /\ \A j \in 1..ndrain, func \in Funcs :
              (Escaped(j) /\ Registered(j, func)) =>
                 /\ HasKey(always_call, func)
                 /\ DrainDone(j + 1) => Len(CallsOf(j + 1, "always", func)) = 1

\* C7 (amended): as C7, except that the next drain invokes each continuous
\* entry, once, only as far as no exception leaves that drain before the
\* entry is reached.
C7_RaiseAbortsDrainAndNext ==
    debug_type = RAISE_ERROR =>
        /\ AbortDropsOneShots
        /\ \A j \in 1..ndrain, func \in Funcs :
              (Escaped(j) /\ Registered(j, func)) =>
                 /\ HasKey(always_call, func)
                 /\ Len(CallsOf(j + 1, "always", func)) <= 1
                 /\ (DrainDone(j + 1) /\ CallsOf(j + 1, "always", func) = <<>>)
                       => EscapedBy(j + 1, "always")

\* C7 witness: under RAISE_ERROR a failing continuous callback made the
\* first drain drop a latest entry it had removed; the second drain invoked
\* the continuous callback again and did not invoke the dropped entry.
C7_Witness ==
    /\ debug_type = RAISE_ERROR /\ Escaped(1) /\ DrainDone(2)
    /\ \E func \in Funcs :
          /\ Subs(1, "latest", func) # <<>>
          /\ CallsOf(1, "latest", func) = <<>>
          /\ CallsOf(2, "latest", func) = <<>>
    /\ \E func \in Funcs :
          /\ Len(CallsOf(1, "always", func)) = 1
          /\ Len(CallsOf(2, "always", func)) = 1

\* History entry ev is a submission that the coming drain is due to invoke
\* once run_update call j has been left by an exception at entry i: it took
\* its lock after the failure and before run_update call j + 1 collected
SubmittedAfter(j, i, m) ==
    /\ EscapedAt(j, i) /\ m > i
    /\ hist[m].e = "sub" /\ hist[m].n = j + 1
    /\ hist[m].k \in {"always", "latest", "every", "delay"}
    /\ hist[m].k = "delay" => EligibleAt(hist[m], j + 1)

\* run_update call j invoked the target of submission ev
InvokedBy(ev, j) ==
    \E c \in 1..Len(hist) :
        /\ hist[c].e = "call" /\ hist[c].n = j
        /\ hist[c].k = ev.k /\ hist[c].f = ev.f

\* The target of submission ev is among run_update's collected locals
InLocals(ev) ==
    CASE ev.k = "always" -> HasKey(drain.always, ev.f)
      [] ev.k = "latest" -> HasKey(drain.latest, ev.f)
      [] ev.k = "every" -> HasKey(drain.main, ev.f)
      [] OTHER -> HasKey(drain.delayed, ev.f)

\* run_update is at one of its positions, holds no lock outside its four
\* with-blocks, and can be called by the timer whenever it is not running
DrainRunnable ==
    /\ drain.st \in {"lock", "idle", "exec", "cs"}
    /\ drain.st \in {"idle", "exec"} =>
          \A k \in DOMAIN locks : locks[k] # MainThread
    /\ (drain.st = "idle" /\ tmr = "active" /\ ndrain < MaxDrains) =>
          ENABLED Tick

\* No step of run_update writes the running flag or touches the timer
DrainKeepsControl ==
    drain' # drain => (running' = running /\ tmr' = tmr)

CanStep(p) == ENABLED ProducerStep(p)

\* The holder of the lock producer p waits for is inside the with-block on
\* that lock and can leave it: a producer at its one statement under the
\* lock, or run_update at the copy, swap or partition for that collection
HolderInShortSection(p) ==
    LET k == OpKind(req[p].op)
        h == locks[k]
    IN  /\ pc[p] = "lock" /\ h # "none" /\ h # p
        /\ IF h = MainThread
           THEN drain.st = "cs" /\ Kinds[drain.k] = k /\ ENABLED DrainCollect
           ELSE pc[h] = "cs" /\ OpKind(req[h].op) = k /\ ENABLED Mutate(h)

\* C9: a producer inside register_continuous, call_latest, call_in_main or
\* delay can always take its next step, whatever the main thread is doing,
\* unless it waits for a lock whose holder is inside its short critical
\* section on that lock; run_update holds no lock while it executes
\* callables.
C9_NoCrossThreadBlocking ==
    /\ \A p \in Producers :
          pc[p] # "idle" => (CanStep(p) \/ HolderInShortSection(p))
    /\ drain.st = "exec" => \A k \in DOMAIN locks : locks[k] # MainThread

\* C9 witness: while run_update was in its loops with a callable still to
\* run, a producer entered a submission method, which stored its call for
\* the next drain and returned before run_update took another step.
C9_Witness ==
    /\ drain.st = "exec" /\ DrainLeft(drain)
    /\ \A p \in Producers : pc[p] = "idle"
    /\ hist # <<>>
    /\ hist[Len(hist)].e = "sub" /\ hist[Len(hist)].n = ndrain + 1
    /\ \E m \in 1..Len(hist) : hist[m].e = "sub" /\ hist[m].n = ndrain

\* C10: every invocation of a submitted callable, by run_update or by
\* now_call_latest / now_call_in_main, is made on the main thread.
C10_CallsOnMainThread ==
    \A i \in 1..Len(hist) : hist[i].e = "call" => hist[i].th = MainThread

\* C10 witness: a now_call method called on the main thread invoked its
\* target there, and the target a producer passed to a now_call method was
\* stored and then invoked by run_update while the producer was still in
\* ensure_running.
C10_Witness ==
    /\ \E i \in 1..Len(hist) :
          hist[i].e = "call" /\ hist[i].k = "now" /\ hist[i].th = MainThread
    /\ \E p \in Producers :
          /\ req[p].op \in NowOps /\ pc[p] = "er_test"
          /\ \E i \in 1..Len(hist) :
                /\ hist[i].e = "call" /\ hist[i].k = OpKind(req[p].op)
                /\ hist[i].f = req[p].f /\ hist[i].th = MainThread

\* Every call that a drain within the bound has to make has been made:
\* each latest and queued submission collected by run_update calls
\* 1..MaxDrains, and each delayed entry a partition found eligible
AllDueInvoked ==
    /\ \A i \in 1..Len(hist) :
          (/\ hist[i].e = "sub" /\ hist[i].k \in {"latest", "every"}
           /\ hist[i].n <= MaxDrains) =>
              /\ InvokedBy(hist[i], hist[i].n)
              /\ hist[i].k = "every" =>
                    Len(CallsOf(hist[i].n, "every", hist[i].f)) =
                    Len(Subs(hist[i].n, "every", hist[i].f))
    /\ \A j \in 1..ndrain, func \in Funcs :
          Len(CallsOf(j, "delay", func)) = DueIn(j, func)

\* C11: on an initialised, stopped updater with debug_type PRINT_ERROR or
\* HIDE_ERROR, every call submitted from any thread by call_latest,
\* call_in_main or delay (once a drain finds its delay elapsed) is eventually
\* invoked, given that the main thread keeps delivering signals and ticks
\* and nobody calls stop() or create_timer(), also when producers race
\* through ensure_running.
C11_SelfStartingLiveness ==
    debug_type \in {PRINT_ERROR, HIDE_ERROR} => <>[]AllDueInvoked

\* The same for HIDE_ERROR alone (C11_SelfStartingLiveness fails for
\* PRINT_ERROR only)
SelfStartingUnderHide ==
    debug_type = HIDE_ERROR => <>[]AllDueInvoked

\* is_running() is True and the timer is not active
RunningInactive == running /\ tmr # "active"

ByProducer == pc' # pc \/ nsub' # nsub

\* C13 (as stated): the running flag and the timer handle are written only
\* by steps of the main thread; no step of a producer thread inside a
\* submission method, ensure_running, start, stop, create_timer or
\* set_timeout writes either.
C13_ControlWrittenOnMainOnly ==
    [][(running' # running \/ tmr' # tmr) => ~ByProducer]_vars

\* C13 (amended): the timer handle and its active state are written only by
\* steps of the main thread; a producer thread writes the running flag only
\* in ensure_running, inside a submission method, and only to True; start,
\* stop, create_timer and set_timeout called on a producer thread write
\* neither.
C13_ProducersOnlyRaiseRunning ==
    [][/\ tmr' # tmr => ~ByProducer
       /\ (running' # running /\ ByProducer) =>
             /\ running'
             /\ \E p \in Producers :
                   /\ pc[p] = "er_set" /\ pc'[p] = "er_emit"
                   /\ req[p].op \in SubmitOps
      ]_vars

\* C13 witness: a producer inside call_latest has raised the running flag
\* in ensure_running while the timer is inactive, and the stop() another
\* producer called is still only a queued request.
C13_Witness ==
    /\ running /\ tmr = "inactive"
    /\ \E p \in Producers : pc[p] = "er_emit" /\ req[p].op = "call_latest"
    /\ \E i \in 1..Len(sigq) : sigq[i] = "stopping"

\* Nothing is pending: the four collections are empty, no producer is
\* inside a method, no signal is queued and run_update is not running
Quiet ==
    /\ always_call = <<>> /\ latest_call = <<>>
    /\ every_call = <<>> /\ delay_call = <<>>
    /\ \A p \in Producers : pc[p] = "idle"
    /\ sigq = <<>> /\ drain.st = "idle"

\* C14 (as stated): once a drain has left the four collections empty and
\* nothing more is submitted, the timer becomes inactive, running becomes
\* False, and no further drain occurs until the next submission or start().
C14_SelfStopping ==
    /\ [][(Quiet /\ ndrain >= 1) => ndrain' = ndrain]_vars
    /\ <>[](Quiet /\ ndrain >= 1) => <>(~running /\ tmr # "active")

\* C14 (amended): the timer is self-starting but not self-stopping: once a
\* submission has started it, the timer stays active and running stays True
\* (nothing but stop() or create_timer() deactivates it), and ticks keep
\* calling run_update whether or not anything is pending.
C14_TimerKeepsTicking ==
    /\ [][tmr = "active" => (tmr' = "active" /\ running')]_vars
    /\ [](Quiet /\ tmr = "active" /\ ndrain < MaxDrains => ENABLED Tick)
    /\ (tmr = "active") ~> (ndrain = MaxDrains)

\* C14 witness: the first drain invoked everything that was submitted, and a
\* second drain ran with nothing to collect; the timer is still active.
C14_Witness ==
    /\ Quiet /\ ndrain = 2 /\ tmr = "active" /\ running
    /\ \E i \in 1..Len(hist) : hist[i].e = "call" /\ hist[i].n = 1
    /\ \A i \in 1..Len(hist) : hist[i].e \in {"call", "sub"} => hist[i].n # 2

\* C15: on the main thread stop() on a stopped updater, also one whose
\* timer was never created, leaves is_running() False and no timer active;
\* start() on a running updater leaves is_running() True and the timer
\* active; stop();stop() and start();start() end in the state a single
\* stop() or start() ends in.  (stop and start raise nothing: StopOp and
\* StartOp are total.)
C15_IdempotentStopStart ==
    LET stopped == StopOp(Ctl, TRUE)
        started == StartOp(Ctl)
    IN  /\ (~running /\ tmr # "active") =>
              (~stopped.running /\ stopped.tmr = tmr)
        /\ (running /\ tmr = "active") =>
              (started.running /\ started.tmr = "active")
        /\ ~stopped.running /\ stopped.tmr # "active"
        /\ started.running /\ started.tmr = "active"
        /\ StopOp(stopped, TRUE) = stopped
        /\ StartOp(started) = started

\* C15 witness: stop() was called three times on the main thread on an
\* updater whose timer was never created, and start() can be called now.
C15_Witness ==
    /\ tmr = "none" /\ ~connected /\ nmain = MaxControl /\ ~running
    /\ StartOp(Ctl).tmr = "active"

\* The step is set_timeout(x) called, and run to its end, on the main thread
MainSetsTimeout == timeout' # timeout /\ ~ByProducer

\* The step is producer p's return from set_timeout
StReturns(p) == pc[p] = "st_start" /\ pc'[p] = "idle"

\* C16 (as stated): when set_timeout(x) returns, on the main thread or on a
\* producer thread, get_timeout() is x, and if the updater was running when
\* set_timeout was called the timer is active with its interval set from x.
C16_RoundTripTimeout ==
    [][/\ MainSetsTimeout =>
             (running => (tmr' = "active" /\ interval' = MsOf(timeout')))
       /\ \A p \in Producers : StReturns(p) =>
             /\ timeout' = req[p].a
             /\ req[p].restart =>
                   (tmr' = "active" /\ interval' = MsOf(req[p].a))
      ]_vars

\* C16 (amended): set_timeout(x) stores x, so that get_timeout() returns x
\* until the next set_timeout, and sets the interval of an existing timer
\* from the stored timeout.  On the main thread a running updater is
\* running, with an active timer, when the call returns.  On a producer
\* thread the call only posts the stop request and, when it returns, the
\* start request; the timer is restarted when the main thread executes them.
C16_TimeoutStored ==
    /\ []((tmr # "none" /\ \A p \in Producers : pc[p] \notin {"st_int"}) =>
             interval = MsOf(timeout))
    /\ [][/\ MainSetsTimeout =>
                /\ timeout' \in Timeouts
                /\ running' = running
                /\ running => tmr' = "active"
          /\ \A p \in Producers :
                /\ (pc[p] = "st_set" /\ pc'[p] # "st_set") =>
                      (timeout' = req[p].a /\ tmr' = tmr /\ running' = running)
                /\ StReturns(p) =>
                      /\ tmr' = tmr /\ running' = running
                      /\ sigq' = IF req[p].restart
                                 THEN Append(sigq, "starting") ELSE sigq
         ]_vars

\* C16 witness: a producer called set_timeout(x) on a running updater; the
\* main thread executed the stop request before the call returned, so the
\* call has returned, get_timeout() is x, and the timer is inactive with the
\* start request still queued.
C16_Witness ==
    /\ nsub = 2 /\ nmain = 0 /\ hist = <<>>
    /\ \A p \in Producers : pc[p] = "idle"
    /\ timeout \in Timeouts /\ interval = MsOf(timeout)
    /\ ~running /\ tmr = "inactive" /\ sigq = <<"starting">>

\* The place in the history of the first submission of func that
\* run_update call j collects from collection k; for the continuous
\* collection, of its first registration
FirstSub(j, k, func) ==
    CHOOSE i \in 1..Len(hist) :
        /\ hist[i].e = "sub" /\ hist[i].k = k /\ hist[i].f = func
        /\ IF k = "always" THEN hist[i].n <= j ELSE hist[i].n = j
        /\ \A m \in 1..(i - 1) :
              ~(/\ hist[m].e = "sub" /\ hist[m].k = k /\ hist[m].f = func
                /\ IF k = "always" THEN hist[m].n <= j ELSE hist[m].n = j)

\* C17: within one drain every invocation of a delayed entry precedes every
\* invocation of a continuous entry, which precedes every invocation of a
\* latest entry, which precedes every invocation of a queued entry;
\* continuous and latest entries run in the order their targets were
\* inserted, and queued entries run grouped by target, the targets in the
\* order of their first submission and each target's submissions in
\* submission order.
C17_FixedDrainOrder ==
    \A c1 \in 1..Len(hist), c2 \in 1..Len(hist) :
        (/\ c1 < c2
         /\ hist[c1].e = "call" /\ hist[c2].e = "call"
         /\ hist[c1].k # "now" /\ hist[c2].k # "now"
         /\ hist[c1].n = hist[c2].n) =>
            LET j == hist[c1].n
                k == hist[c1].k
            IN  /\ ExecIdx(k) <= ExecIdx(hist[c2].k)
                /\ (k = hist[c2].k /\ k \in {"always", "latest"}) =>
                      FirstSub(j, k, hist[c1].f) < FirstSub(j, k, hist[c2].f)
                /\ (k = hist[c2].k /\ k = "every") =>
                      /\ FirstSub(j, k, hist[c1].f) <= FirstSub(j, k, hist[c2].f)
                      /\ IsPrefix(ArgsOf(CallsOf(j, k, hist[c1].f)),
                                  ArgsOf(Subs(j, k, hist[c1].f)))

\* C17 witness: call_in_main was called for one target, for a second
\* target, and for the first target again before one drain, which invoked
\* the first target twice, in submission order, and then the second.
C17_Witness ==
    \E j \in 1..ndrain, func \in Funcs, g \in Funcs :
        /\ func # g /\ DrainDone(j)
        /\ Len(Subs(j, "every", func)) = 2 /\ Len(Subs(j, "every", g)) = 1
        /\ FirstSub(j, "every", func) < FirstSub(j, "every", g)
        /\ \E i \in 1..Len(hist) :
              /\ i > FirstSub(j, "every", g)
              /\ hist[i].e = "sub" /\ hist[i].k = "every" /\ hist[i].f = func
              /\ hist[i].n = j /\ hist[i].a # hist[FirstSub(j, "every", func)].a
        /\ Len(Calls(j, "every")) = 3
        /\ Calls(j, "every")[1].f = func /\ Calls(j, "every")[2].f = func
        /\ Calls(j, "every")[3].f = g

\* The place in the history of the delay() call whose argument is a
DelaySubOf(a) ==
    CHOOSE i \in 1..Len(hist) :
        hist[i].e = "sub" /\ hist[i].k = "delay" /\ hist[i].a = a

\* C18: the delayed entries that are eligible in the same drain are
\* invoked in the order of their positions in the delayed list, front to
\* back, that is in the order in which delay() appended them.
C18_DelayedFrontToBack ==
    \A c1 \in 1..Len(hist), c2 \in 1..Len(hist) :
        (/\ c1 < c2
         /\ hist[c1].e = "call" /\ hist[c2].e = "call"
         /\ hist[c1].k = "delay" /\ hist[c2].k = "delay"
         /\ hist[c1].n = hist[c2].n) =>
            DelaySubOf(hist[c1].a) < DelaySubOf(hist[c2].a)

\* What run_update does: the delayed entries that are eligible in the same
\* drain are invoked back to front, the entry appended last first
DelayedBackToFront ==
    \A c1 \in 1..Len(hist), c2 \in 1..Len(hist) :
        (/\ c1 < c2
         /\ hist[c1].e = "call" /\ hist[c2].e = "call"
         /\ hist[c1].k = "delay" /\ hist[c2].k = "delay"
         /\ hist[c1].n = hist[c2].n) =>
            DelaySubOf(hist[c1].a) > DelaySubOf(hist[c2].a)

\* Three delayed entries were eligible in one drain and all were invoked
DelayedBackToFrontWitness ==
    \E j \in 1..ndrain : Len(Calls(j, "delay")) = 3

\* The thread that holds lock k is inside the with-block on that lock: a
\* producer at the one statement of its method under the lock, or run_update
\* at the copy, swap or partition of that collection
HeldInsideWithBlock(k) ==
    /\ locks[k] = MainThread => drain.st = "cs" /\ Kinds[drain.k] = k
    /\ \A p \in Producers :
          locks[k] = p => pc[p] = "cs" /\ OpKind(req[p].op) = k

\* Thread th holds none of the four locks
HoldsNoLock(th) == \A k \in DOMAIN locks : locks[k] # th

\* This step invokes a submitted callable
CallMade ==
    /\ Len(hist') = Len(hist) + 1
    /\ hist'[Len(hist')].e = "call"

Resubmitted(m) == hist[m].e = "sub" /\ hist[m].th = MainThread

\* The run_update call in progress when the callable made submission m: the
\* one that made the last invocation before it
DrainInProgress(m) ==
    LET c == CHOOSE i \in 1..m :
                 /\ hist[i].e = "call"
                 /\ \A i2 \in (i + 1)..m : hist[i2].e # "call"
    IN  hist[c].n

\* run_update call j has invoked everything submitted for the target of
\* submission m to m's collection: once for latest, once per submission
\* for queued
InvokedAll(m, j) ==
    Len(CallsOf(j, hist[m].k, hist[m].f)) =
        IF hist[m].k = "latest" THEN 1
        ELSE Len(Subs(j, hist[m].k, hist[m].f))

\* The submission method a callable called from inside run_update waits for
\* its lock only while a producer is at its one statement under that lock
ReWaitsShortly ==
    drain.st = "re_lock" =>
        LET h == locks[OpKind(drain.re)]
        IN  \/ h = "none"
            \/ h \in Producers /\ pc[h] = "cs" /\ ENABLED Mutate(h)

\* Every run_update call that has started returns or is left by an exception
EachDrainTerminates == (drain.st # "idle") ~> (drain.st = "idle")

\* The work a callable submitted from inside run_update call j is in the
\* collection, not among the locals of call j: it is what call j + 1
\* collects
LeftToNextDrain ==
    \A m \in 1..Len(hist) :
        Resubmitted(m) => hist[m].n = DrainInProgress(m) + 1

\* A run_update call invokes a callable through latest, queued or delayed
\* no more often than it was submitted since the call before, and through
\* latest or continuous at most once
BoundedPerDrain ==
    \A j \in 1..ndrain, func \in {"part", "again"} :
        /\ \A k \in {"latest", "every", "delay"} :
              Len(CallsOf(j, k, func)) <= Len(Subs(j, k, func))
        /\ \A k \in {"always", "latest"} : Len(CallsOf(j, k, func)) <= 1

\* C20 (as stated): a callable that calls register_continuous, call_latest,
\* call_in_main, delay or ensure_running while run_update invokes it does not
\* deadlock and each run_update call terminates; what it submits to latest
\* or queued is not invoked by the run_update call in progress and is
\* invoked by a later one, so that a self-resubmitting callable is invoked
\* once per run_update call.
C20_ReentrantSubmission ==
    /\ []ReWaitsShortly
    /\ []LeftToNextDrain
    /\ []BoundedPerDrain
    /\ [](\A m \in 1..Len(hist) :
            (/\ Resubmitted(m) /\ hist[m].k \in {"latest", "every"}
             /\ DrainDone(DrainInProgress(m) + 1)) =>
                InvokedAll(m, DrainInProgress(m) + 1))
    /\ EachDrainTerminates

\* C20 (amended): no deadlock, termination, and the work submitted to latest
\* or queued is left to the next run_update call as stated; that call
\* invokes it unless an exception leaves it first.
C20_ReentrantSubmissionUnlessAborted ==
    /\ []ReWaitsShortly
    /\ []LeftToNextDrain
    /\ []BoundedPerDrain
    /\ [](\A m \in 1..Len(hist) :
            (/\ Resubmitted(m) /\ hist[m].k \in {"latest", "every"}
             /\ DrainDone(DrainInProgress(m) + 1)) =>
                \/ InvokedAll(m, DrainInProgress(m) + 1)
                \/ EscapedBy(DrainInProgress(m) + 1, hist[m].k))
    /\ EachDrainTerminates

\* C20 witness: a callable submitted with call_latest was invoked by the
\* first run_update call and called call_latest for itself from there; that
\* call did not invoke it again, and the second run_update call invoked it
\* once and has returned.
C20_Witness ==
    /\ DrainDone(2)
    /\ Len(CallsOf(1, "latest", "again")) = 1
    /\ Len(CallsOf(2, "latest", "again")) = 1
    /\ \E m \in 1..Len(hist) :
          /\ Resubmitted(m) /\ hist[m].k = "latest" /\ hist[m].f = "again"
          /\ DrainInProgress(m) = 1 /\ InvokedAll(m, 2)

\* This step invokes a target directly from now_call_latest / now_call_in_main
NowCallMade == CallMade /\ hist'[Len(hist')].k = "now"

\* Producer p leaves the with-block of the method it is in
LeavesLock(p) == pc[p] = "cs" /\ pc'[p] # "cs"

\* C21: now_call_latest / now_call_in_main called on the main thread invoke
\* the target once, in the calling step, and leave the four collections,
\* the running flag, the timer and the signal queue as they are; called on
\* a producer thread they do not invoke it and have the effect of
\* call_latest / call_in_main: the same statement under the same lock,
\* followed by ensure_running.
C21_NowCallFastPath ==
    /\ [][NowCallMade =>
            /\ hist'[Len(hist')].th = MainThread
            /\ nmain' = nmain + 1
            /\ UNCHANGED <<always_call, latest_call, every_call, delay_call,
                           locks, running, tmr, interval, sigq>>]_vars
    /\ [][ByProducer => ~CallMade]_vars
    /\ [][\A p \in Producers :
            (LeavesLock(p) /\ req[p].op \in NowOps) =>
                /\ latest_call' = IF req[p].op = "now_call_latest"
                                  THEN LatestSet(latest_call, req[p].f, req[p].a)
                                  ELSE latest_call
                /\ every_call' = IF req[p].op = "now_call_in_main"
                                 THEN EveryAppend(every_call, req[p].f, req[p].a)
                                 ELSE every_call
                /\ UNCHANGED <<always_call, delay_call, running, tmr, sigq>>
                /\ pc'[p] = "er_test"]_vars

\* C21 witness: code on the main thread has called a now_call method, which
\* invoked its target, while the target a producer passed to
\* now_call_in_main is stored in the queued collection, not invoked, and the
\* producer is about to enter ensure_running.
C21_Witness ==
    /\ \E i \in 1..Len(hist) : hist[i].e = "call" /\ hist[i].k = "now"
    /\ \E p \in Producers :
          /\ pc[p] = "er_test" /\ req[p].op = "now_call_in_main"
          /\ HasKey(every_call, req[p].f)
          /\ \A i \in 1..Len(hist) : hist[i].e = "call" => hist[i].k = "now"

\* History entry u is an unregister_continuous call (its pop, under the lock)
Unregistered(u) == hist[u].e = "sub" /\ hist[u].k = "unreg"

\* No register_continuous for the target of u took the lock after u and
\* before run_update call j copied the continuous collection
NotRegisteredAgain(u, j) ==
    \A i \in (u + 1)..Len(hist) :
        ~(/\ hist[i].e = "sub" /\ hist[i].k = "always"
          /\ hist[i].f = hist[u].f /\ hist[i].n <= j)

\* unregister_continuous for a target that is not registered changes nothing
UnregisterAbsentIsNoOp ==
    \A p \in Producers :
        (/\ LeavesLock(p) /\ req[p].op = "unregister_continuous"
         /\ ~HasKey(always_call, req[p].f)) =>
            /\ UNCHANGED <<always_call, latest_call, every_call, delay_call,
                           running, tmr, interval, sigq, drain>>
            /\ pc'[p] = "idle"

\* No run_update call that copies the continuous collection after
\* unregister_continuous(f) invokes f from it, unless f was registered again
NotInvokedAfterUnregister ==
    \A u \in 1..Len(hist), j \in 1..ndrain :
        (Unregistered(u) /\ j >= hist[u].n /\ NotRegisteredAgain(u, j)) =>
            CallsOf(j, "always", hist[u].f) = <<>>

\* C22 (as stated): a run_update call that copied the continuous collection
\* with f in it before unregister_continuous(f) removed f still invokes f,
\* once; every run_update call that copies the collection after
\* unregister_continuous(f) (and before f is registered again) does not
\* invoke f from it; unregister_continuous for a target that is not
\* registered changes no state.
C22_UnregisterRacingDrain ==
    /\ [](\A u \in 1..Len(hist) :
            LET j == hist[u].n - 1 IN
            (Unregistered(u) /\ j >= 1 /\ Registered(j, hist[u].f)
                /\ DrainDone(j)) =>
                Len(CallsOf(j, "always", hist[u].f)) = 1)
    /\ []NotInvokedAfterUnregister
    /\ [][UnregisterAbsentIsNoOp]_vars

\* C22 (amended): such a run_update call invokes f at most once more, and
\* exactly once unless an exception leaves it while it runs a delayed entry
\* or a continuous entry that comes before f; the rest as stated.
C22_UnregisterRacingDrainUnlessAborted ==
    /\ [](\A u \in 1..Len(hist) :
            LET j == hist[u].n - 1 IN
            (Unregistered(u) /\ j >= 1 /\ Registered(j, hist[u].f)) =>
                /\ Len(CallsOf(j, "always", hist[u].f)) <= 1
                /\ (DrainDone(j) /\ CallsOf(j, "always", hist[u].f) = <<>>)
                      => EscapedBy(j, "always"))
    /\ []NotInvokedAfterUnregister
    /\ [][UnregisterAbsentIsNoOp]_vars

\* C22 witness: unregister_continuous(f) removed f after the first
\* run_update call had copied the collection and before it invoked f; that
\* call invoked f all the same, and the second one, now over, did not.
C22_Witness ==
    \E u \in 1..Len(hist), c \in 1..Len(hist) :
        /\ Unregistered(u) /\ hist[u].n = 2 /\ Registered(1, hist[u].f)
        /\ c > u /\ hist[c].e = "call" /\ hist[c].k = "always"
        /\ hist[c].n = 1 /\ hist[c].f = hist[u].f
        /\ DrainDone(2) /\ HasPart(2)
        /\ CallsOf(2, "always", hist[u].f) = <<>>

\* Entry i of the manager's log is a write of main_updater
IsWrite(i) == mgr.log[i].e \in {"new", "set"}

\* The value of main_updater before entry i of the log: the last value
\* written, or the updater the manager's constructor made
UpdaterBefore(i) ==
    IF \E w \in 1..(i - 1) : IsWrite(w)
    THEN mgr.log[CHOOSE w \in 1..(i - 1) :
                    IsWrite(w) /\ \A w2 \in (w + 1)..(i - 1) : ~IsWrite(w2)].u
    ELSE 1

\* This step is get_updater returning the updater the same call created
ReturnsCreated ==
    /\ mgr.log # <<>>
    /\ mgr.log[Len(mgr.log)].e = "new"
    /\ Len(mgr'.log) = Len(mgr.log) + 1
    /\ mgr'.log[Len(mgr'.log)].e = "ret"

\* C23: get_updater creates an updater only while none is set, once for all
\* the calls that find none, and every call returns the updater that is set
\* at its return, never None: the one set_updater set last, or, after
\* set_updater(None), the one created since, which is a new object with
\* empty collections, initialised before it is returned.
C23_GlobalDefaultUpdater ==
    /\ [](\A i \in 1..Len(mgr.log) :
            /\ mgr.log[i].e = "ret" =>
                  /\ mgr.log[i].u # NoUpdater
                  /\ mgr.log[i].u = UpdaterBefore(i)
            /\ mgr.log[i].e = "new" =>
                  /\ UpdaterBefore(i) = NoUpdater
                  /\ mgr.log[i].u # 1
                  /\ \A i2 \in 1..(i - 1) : mgr.log[i2].u # mgr.log[i].u)
    /\ [][ReturnsCreated =>
            mgr.objs[mgr.main_updater] = InitUpdater(NewUpdater)]_vars

\* C23 witness: a call was stored in the constructor's updater, cleanup_app
\* reset the manager, and get_updater calls from two other threads have
\* returned the one new updater, whose collections are empty.
C23_Witness ==
    \E i \in 1..Len(mgr.log), t1 \in Callers, t2 \in Callers :
        /\ mgr.log[i].e = "new" /\ mgr.log[i].t = t1 /\ t1 # t2
        /\ mgr.objs[1].work = 1
        /\ mgr.got[t1] = mgr.log[i].u /\ mgr.got[t2] = mgr.log[i].u
        /\ mgr.objs[mgr.log[i].u].work = 0
        /\ \E t3 \in Callers : mgr.got[t3] = 1
        /\ \A t \in Callers : mgr.at[t] = "idle"

\* This step assigns the updater's timeout attribute
TimeoutAssigned == attrs' # attrs

\* C24: after "updater.timeout = v", get_timeout() returns v and the timer's
\* interval is the one derived from v.
C24_TimeoutAttributeSetsInterval ==
    [][TimeoutAssigned =>
          /\ timeout' = attrs'.timeout
          /\ tmr' # "none" => interval' = MsOf(attrs'.timeout)]_vars

\* What the assignment does: get_timeout(), the timer and its interval, and
\* the running flag are what they were
TimeoutAttributeIsInert ==
    [][TimeoutAssigned => UNCHANGED <<timeout, interval, tmr, running>>]_vars

\* The attribute was assigned while the updater was running with delayed
\* calls pending: the timer still has the interval of the constructor's timeout
TimeoutAttributeIsInertWitness ==
    /\ attrs.has_timeout /\ attrs.timeout # timeout
    /\ running /\ tmr = "active" /\ delay_call # <<>>
    /\ interval = MsOf(DefaultTimeout)

\* The delay() calls, in the order of their appends, that no run_update
\* call so far found eligible when it partitioned the delayed list
NeverEligible ==
    SelectSeq(hist, LAMBDA ev :
        /\ ev.e = "sub" /\ ev.k = "delay"
        /\ \A j \in 1..ndrain : ~EligibleAt(ev, j))

\* This step is run_update's partition of the delayed list
Partitions == drain.st = "cs" /\ Kinds[drain.k] = "delay" /\ drain' # drain

\* C25: run_update's collection step takes out of the delayed list exactly
\* the entries that are eligible then and leaves the others, in their
\* order; an entry taken out is not in the list again whatever its callable
\* does, so the list never holds an entry that has been invoked.
C25_DelayedPartition ==
    /\ [](ArgsOf(delay_call) = ArgsOf(NeverEligible))
    /\ [](\A i \in 1..Len(delay_call), c \in 1..Len(hist) :
            ~(/\ hist[c].e = "call" /\ hist[c].k = "delay"
              /\ hist[c].a = delay_call[i].a))
    /\ [][Partitions =>
            /\ Len(delay_call') + Len(drain'.delayed) = Len(delay_call)
            /\ \A i \in 1..Len(drain'.delayed) :
                  now - drain'.delayed[i].start_time
                      >= drain'.delayed[i].delay_time
            /\ \A i \in 1..Len(delay_call') :
                  now - delay_call'[i].start_time
                      < delay_call'[i].delay_time]_vars

\* C25 witness: a run_update call found one entry eligible and two not; it
\* took the first out and invoked it, the callable failed, the call is over,
\* and the list holds the two others in the order of their appends.
C25_Witness ==
    /\ DrainDone(1) /\ ndrain = 1
    /\ Len(delay_call) = 2 /\ delay_call[1].a < delay_call[2].a
    /\ \E c \in 1..Len(hist) :
          /\ hist[c].e = "call" /\ hist[c].k = "delay" /\ hist[c].n = 1
          /\ hist[c].x # "ok"
          /\ \E m \in 1..Len(hist) :
                /\ hist[m].e = "sub" /\ hist[m].k = "delay"
                /\ hist[m].a = delay_call[2].a /\ hist[m].n = 1

\* This step is a producer calling start(), stop() or create_timer(): the
\* call returns in the step
ControlCalledOffMain == ByProducer /\ pc' = pc

\* This step is the main thread running the slot of the oldest request
Delivered == sigq # <<>> /\ sigq' = Tail(sigq) /\ ~ByProducer

StartTrace(c) ==
    LET c1 == StopOp(c, FALSE)
        c2 == [c1 EXCEPT !.running = TRUE]
        c3 == IF c2.tmr = "none" THEN CreateTimerOp(c2) ELSE c2
        c4 == [c3 EXCEPT !.tmr = "active"]
    IN  <<c1, c2, c3, c4>>

\* C27: start() on the main thread, from any state, ends with running True
\* and an existing, active timer whose interval is the one derived from the
\* current timeout; no statement of start() sets the running flag to False.
C27_StartEndsRunning ==
    LET tr == StartTrace(Ctl)
        started == StartOp(Ctl)
    IN  /\ started = tr[4]
        /\ started.running /\ started.tmr = "active"
        /\ started.interval = MsOf(started.timeout)
        /\ \A i \in 1..4 : running => tr[i].running
        /\ \A i \in 2..4 : tr[i].running

\* A producer is inside set_timeout between "self._timeout = value" and
\* "self._tmr.setInterval(...)"
SetTimeoutHalfDone == \E p \in Producers : pc[p] = "st_int"

\* What start() does: everything C27 states, the interval only when no
\* producer is half way through set_timeout
StartEndsRunningOutsideRace ==
    LET tr == StartTrace(Ctl)
        started == StartOp(Ctl)
    IN  /\ started = tr[4]
        /\ started.running /\ started.tmr = "active"
        /\ ~SetTimeoutHalfDone => started.interval = MsOf(started.timeout)
        /\ \A i \in 1..4 : running => tr[i].running
        /\ \A i \in 2..4 : tr[i].running

\* The main thread has run start() while a producer was half way through
\* set_timeout: the timer is active with the interval of the old timeout
StartEndsRunningOutsideRaceWitness ==
    /\ SetTimeoutHalfDone
    /\ running /\ tmr = "active"
    /\ interval # MsOf(timeout)

\* C28: when the only stop calls are stop(set_state=False), made on the
\* main thread or on producer threads, the running flag is never set to
\* False; a stop(set_state=False) on the main thread leaves the timer
\* inactive.
C28_StopKeepsRunningFlag ==
    /\ [][running => running']_vars
    /\ [][(nmain' # nmain /\ tmr' # "active") => running' = running]_vars

\* What stop(set_state=False) does on the main thread: the timer is
\* inactive afterwards and the running flag is what it was
StopKeepOnMainKeepsFlag ==
    /\ StopOp(Ctl, FALSE).running = running
    /\ StopOp(Ctl, FALSE).tmr # "active"
    /\ DirectOp("stop_keep", Ctl) = StopOp(Ctl, FALSE)

\* stop(set_state=False) was called on the main thread on a running
\* updater: the timer is inactive and is_running() is True
StopKeepOnMainKeepsFlagWitness ==
    /\ nmain >= 1 /\ sigq = <<>> /\ running /\ tmr = "inactive"
    /\ \A p \in Producers : pc[p] = "idle"
    /\ ndrain >= 1

\* ------------------------------------------------ set_timeout's restart
\* No set_timeout call is in progress and no request is queued
NoRequestPending == sigq = <<>> /\ \A p \in Producers : pc[p] = "idle"

\* Producer p enters set_timeout(value) as in StBegin, while no request is
\* pending; the history records is_running() (x) and the timer's state (k)
\* at the call
StCall(p, max) ==
    /\ NoRequestPending
    /\ pc[p] = "idle"
    /\ nsub < max
    /\ nsub' = nsub + 1
    /\ \E value \in Timeouts :
         /\ req' = [req EXCEPT ![p] = [NoReq EXCEPT !.op = "set_timeout",
                                                   !.a = value,
                                                   !.restart = running]]
         /\ hist' = Append(hist, Ev("set_timeout", tmr, "f", value, 0, p,
                                    running))
    /\ sigq' = IF running THEN Emit(sigq, "stopping") ELSE sigq
    /\ pc' = [pc EXCEPT ![p] = "st_set"]
    /\ UNCHANGED <<always_call, latest_call, every_call, delay_call, locks,
                   running, tmr, debug_type, mgr, attrs, orphan, widget, connected, timeout,
                   interval, now, drain, nmain, ndrain>>

\* Code on the main thread calls start(), stop(), stop(set_state=False) or
\* create_timer() while no request is pending
IsolatedControl == NoRequestPending /\ MainControl(MarshalledOps, MaxControl)

\* Code on the main thread calls set_timeout(value) while no request is
\* pending
IsolatedSetTimeout == NoRequestPending /\ MainSetTimeout

\* One producer that calls set_timeout, and code on the main thread that
\* calls start, stop, stop(set_state=False), create_timer and set_timeout;
\* the main event loop delivers the queued requests.  A call is made only
\* while no other set_timeout call is in progress or has requests queued,
\* nothing is submitted and no tick falls between a call and its requests,
\* so every change between a call and the delivery of its last request is
\* made by that call.
NextRestart ==
    \/ \E p \in {"p1"} : StCall(p, MaxSubmit)
    \/ \E p \in {"p1"} : StSet(p)
    \/ \E p \in {"p1"} : StInterval(p)
    \/ \E p \in {"p1"} : StRestart(p)
    \/ ProcessSignal
    \/ IsolatedControl
    \/ IsolatedSetTimeout

SpecRestart == Init /\ [][NextRestart]_vars

\* The producer's latest set_timeout call
LastCall == hist[Len(hist)]

\* The step ends a producer's set_timeout: the call has returned and the
\* last request it posted has been executed
RestartDone == hist # <<>> /\ ~NoRequestPending /\ NoRequestPending'

\* C29: set_timeout leaves is_running() and the timer's active state as
\* they were before the call, on the main thread when it returns, on a
\* producer thread once it has returned and the requests it posted have
\* been executed.
C29_SetTimeoutPreservesRunning ==
    /\ [][MainSetsTimeout =>
             /\ running' = running
             /\ (tmr' = "active") <=> (tmr = "active")]_vars
    /\ [][RestartDone =>
             /\ running' = LastCall.x
             /\ (tmr' = "active") <=> (LastCall.k = "active")]_vars

\* What set_timeout does keep: is_running() is what it was; an updater
\* whose flag was set has an active timer afterwards, whatever the timer's
\* state was; the timer of an updater whose flag was not set is untouched
SetTimeoutKeepsFlag ==
    /\ [][MainSetsTimeout =>
             /\ running' = running
             /\ running => tmr' = "active"
             /\ ~running => tmr' = tmr]_vars
    /\ [][RestartDone =>
             /\ running' = LastCall.x
             /\ LastCall.x => tmr' = "active"
             /\ ~LastCall.x => tmr' = LastCall.k]_vars

\* A producer called set_timeout on an updater whose flag was set and whose
\* timer was inactive; its requests have been executed and the timer is
\* active
SetTimeoutKeepsFlagWitness ==
    /\ hist # <<>> /\ NoRequestPending
    /\ LastCall.x /\ LastCall.k = "inactive"
    /\ running /\ tmr = "active" /\ interval = MsOf(LastCall.a)

\* ------------------------------------------- submissions after a stop()
\* Producer p calls stop() before anything has been enqueued: the call has
\* returned when a submission's enqueue happens
StopFirst(p) ==
    /\ hist = <<>>
    /\ Begin(p, {"stop"}, {"f"}, {1}, {0}, MaxSubmit)

\* Code on the main thread calls start() or stop() before anything has been
\* enqueued
MainStopFirst ==
    /\ hist = <<>>
    /\ MainControl({"start", "stop"}, MaxControl)

\* Two producers that call call_latest, with stop() called on a producer
\* thread or on the main thread, and start() on the main thread, only
\* before the first enqueue; the main event loop keeps delivering queued
\* signals and timer ticks, and every thread inside a method goes on.
NextStale ==
    \/ \E p \in Producers : StopFirst(p)
    \/ \E p \in Producers :
         Begin(p, {"call_latest"}, {"f"}, {1}, {0}, MaxSubmit)
    \/ \E p \in Producers : ProducerStep(p)
    \/ MainStep
    \/ MainStopFirst

SpecStale == Init /\ [][NextStale]_vars /\ FairTimer

\* Something has been enqueued
Enqueued == \E i \in 1..Len(hist) : hist[i].e = "sub"

\* C30: when every stop() call, made on a producer thread or on the main
\* thread, has returned before a submission's enqueue, and nothing more is
\* called, the timer is eventually active again and every submitted call
\* is eventually invoked, whatever value of the running flag the
\* submission's ensure_running read.
C30_StaleReadNeverStrands ==
    <>[](AllDueInvoked /\ (Enqueued => tmr = "active"))

\* A stopping request is queued
StopRequestQueued == \E i \in 1..Len(sigq) : sigq[i] = "stopping"

\* The same when stop() is only called on the main thread, where it has
\* been executed when it returns
StopOnMainNeverStrands ==
    [](~StopRequestQueued) =>
        <>[](AllDueInvoked /\ (Enqueued => tmr = "active"))

\* The call submitted after a producer's stop() is stranded: the stop
\* request was executed after ensure_running had read the flag, the timer
\* is inactive, is_running() is False, nothing is queued and the entry is
\* still in latest_call
StrandedAfterStop ==
    /\ latest_call # <<>> /\ sigq = <<>>
    /\ ~running /\ tmr = "inactive"
    /\ \A p \in Producers : pc[p] = "idle"
    /\ drain.st = "idle"

\* --------------------------------------- create_timer on a running updater
\* Two producers that call call_latest and create_timer, code on the main
\* thread that calls start() and create_timer(), and the timer; nobody
\* calls stop().  The main event loop keeps delivering queued signals and
\* timer ticks, and every thread inside a method goes on.
NextRecreate ==
    \/ \E p \in Producers :
         Begin(p, {"call_latest", "create_timer"}, {"f"}, {1}, {0}, MaxSubmit)
    \/ \E p \in Producers : ProducerStep(p)
    \/ MainStep
    \/ MainControl({"start", "create_timer"}, MaxControl)

SpecRecreate == Init /\ [][NextRecreate]_vars /\ FairTimer

\* C31: create_timer() run on the main thread while is_running() is True
\* leaves the new timer active, with the interval of the current timeout,
\* so that pending and later submissions are invoked without a start().
C31_CreateTimerKeepsTicking ==
    /\ [](running =>
            /\ CreateTimerOp(Ctl).tmr = "active"
            /\ CreateTimerOp(Ctl).interval = MsOf(timeout))
    /\ <>[]AllDueInvoked

\* What create_timer() does on the main thread: the new timer has the
\* interval of the current timeout and is not started, and is_running() is
\* what it was
CreateTimerLeavesInactive ==
    /\ CreateTimerOp(Ctl).tmr = "inactive"
    /\ CreateTimerOp(Ctl).interval = MsOf(timeout)
    /\ CreateTimerOp(Ctl).running = running

\* create_timer() ran on a running updater and a call submitted afterwards
\* is stranded: is_running() is True, so ensure_running requested nothing,
\* the new timer is inactive and the entry stays in latest_call
StrandedAfterCreateTimer ==
    /\ latest_call # <<>> /\ sigq = <<>>
    /\ running /\ tmr = "inactive"
    /\ \A p \in Producers : pc[p] = "idle"
    /\ drain.st = "idle"

\* ------------------------------------------------------ one tick source
\* C32: no QTimer other than the one the updater holds is ever active,
\* whatever start(), stop(), create_timer(), set_timeout() and submissions
\* are called, also when several producers post start requests; a
\* run_update call is started only by a tick of the timer the updater
\* holds, one call per tick.
C32_OneTickSource ==
    /\ [](~orphan)
    /\ [][ndrain' # ndrain =>
             /\ tmr = "active"
             /\ ndrain' = ndrain + 1
             /\ drain.st = "idle"]_vars

\* C32 witness: create_timer() has replaced the active timer of a running
\* updater that had already ticked, after the start requests of the
\* producers were executed; the old timer was stopped first and the new
\* one is not started
C32_Witness ==
    /\ running /\ tmr = "inactive" /\ ~orphan
    /\ sigq = <<>> /\ \A p \in Producers : pc[p] = "idle"
    /\ ndrain >= 1 /\ nsub = MaxSubmit

\* ------------------------------------------------ deferred initialisation
\* init() called by thread th on an updater made with init_later=True: the
\* three signals are connected, then create_timer() runs, at once on the
\* main thread, as a queued creating request on any other thread
InitOp(th, c, q) ==
    IF is_main_thread(th)
    THEN [c |-> CreateTimerOp(c), q |-> q]
    ELSE [c |-> c, q |-> Append(q, "creating")]

InitCall(th) ==
    /\ ~connected
    /\ IF is_main_thread(th) THEN drain.st = "idle" ELSE pc[th] = "idle"
    /\ connected' = TRUE
    /\ running' = InitOp(th, Ctl, sigq).c.running
    /\ tmr' = InitOp(th, Ctl, sigq).c.tmr
    /\ interval' = InitOp(th, Ctl, sigq).c.interval
    /\ orphan' = InitOp(th, Ctl, sigq).c.orphan
    /\ sigq' = InitOp(th, Ctl, sigq).q
    /\ UNCHANGED <<always_call, latest_call, every_call, delay_call, locks,
                   debug_type, mgr, attrs, widget, timeout, now, pc, req, drain, hist,
                   nsub, nmain, ndrain>>

\* Producer p starts a submission before init() has been called
SubmitBeforeInit(p) ==
    /\ ~connected
    /\ Begin(p, {"delay", "register_continuous", "call_latest", "call_in_main"},
             {"f"}, {1}, {0}, MaxSubmit)

\* An updater made with init_later=True: two producers that submit before
\* init() is called, init() called on the main thread or on a producer
\* thread, and the timer; nobody calls start().  The main event loop keeps
\* delivering queued signals and timer ticks, and every thread inside a
\* method goes on.
NextDeferred ==
    \/ \E p \in Producers : SubmitBeforeInit(p)
    \/ \E p \in Producers : ProducerStep(p)
    \/ MainStep
    \/ \E th \in Producers \cup {MainThread} : InitCall(th)

SpecDeferred == InitLater /\ [][NextDeferred]_vars /\ FairTimer

\* Every registered target has been invoked through the continuous
\* collection
AllRegisteredInvoked ==
    \A i \in 1..Len(hist) :
        (hist[i].e = "sub" /\ hist[i].k = "always") =>
            \E c \in 1..Len(hist) :
                /\ hist[c].e = "call" /\ hist[c].k = "always"
                /\ hist[c].f = hist[i].f

\* C33: on an updater made with init_later=True, if init() is called then
\* every call submitted before it by call_latest, call_in_main, delay or
\* register_continuous is eventually invoked, without a start().
C33_DeferredInitKeepsWork ==
    <>connected => <>[](AllDueInvoked /\ AllRegisteredInvoked)

\* What init_later does to a submission made before init(): init() has
\* run, is_running() is True since the submission's ensure_running, whose
\* start request went to an unconnected signal, the timer is not started
\* and the entries wait
StrandedBeforeInit ==
    /\ connected /\ running /\ tmr = "inactive" /\ sigq = <<>>
    /\ latest_call # <<>> /\ every_call # <<>>
    /\ \A p \in Producers : pc[p] = "idle"
    /\ drain.st = "idle" /\ ndrain = 0

\* ------------------------------------------------ reporting under PRINT
\* Two producers that submit, by call_latest and call_in_main, a plain
\* function that returns, a plain function that raises and a callable
\* without __name__ that raises, and the timer.
NextErrors ==
    \/ \E p \in Producers :
         Begin(p, {"call_latest", "call_in_main"}, Funcs, {1}, {0}, MaxSubmit)
    \/ \E p \in Producers : ProducerStep(p)
    \/ MainStep

SpecErrors == Init /\ [][NextErrors]_vars

\* C34: with debug_type PRINT_ERROR, handle_error reports the failure of
\* every kind of target, with or without a __name__ attribute, and raises
\* nothing itself: no exception leaves run_update, and run_update goes on
\* with the next callable it collected.
C34_PrintErrorNeverRaises ==
    /\ [](debug_type = PRINT_ERROR => NoEscape)
    /\ [][(debug_type = PRINT_ERROR /\ drain.st = "exec" /\ hist' # hist) =>
             drain' = DrainTail(drain)]_vars

\* What handle_error does under PRINT_ERROR: the failure of a target that
\* has a __name__ is caught and reported, and run_update goes on
PrintErrorCatchesNamed ==
    /\ \A func \in Funcs : HasName(func) => HandleError(PRINT_ERROR, func) # "escaped"
    /\ debug_type = PRINT_ERROR =>
          \A i \in 1..Len(hist) :
              (hist[i].e = "call" /\ hist[i].k # "now" /\ HasName(hist[i].f)) =>
                  hist[i].x # "escaped"

\* Under PRINT_ERROR a failing plain function was caught and a callable
\* collected with it was invoked by the same drain
PrintErrorCatchesNamedWitness ==
    /\ debug_type = PRINT_ERROR
    /\ \E i \in 1..Len(hist) :
          /\ hist[i].e = "call" /\ hist[i].x = "caught" /\ hist[i].f = "bad"
          /\ \E m \in (i + 1)..Len(hist) :
                hist[m].e = "call" /\ hist[m].n = hist[i].n

\* ------------------------------------------------- the text edit widgets
\* The text of write call n with L characters; every character written is
\* a different number, in the order of the calls
Chars(n, L) == [i \in 1..L |-> MaxText * (n - 1) + i]

\* The values passed to setMaximumBlockCount
Maximums == {0 - 1, 0, 1, 2}

\* Producer p calls write(text) on a widget: an empty text returns at once;
\* otherwise the text is put on the queue under the queue's lock and
\* get_updater().call_latest(self.update_display) begins
Write(p) ==
    /\ pc[p] = "idle"
    /\ nsub < MaxWrites
    /\ nsub' = nsub + 1
    /\ \E kind \in WidgetClasses, L \in 0..MaxText :
         IF L = 0
         THEN UNCHANGED <<widget, pc, req>>
         ELSE /\ widget' = [widget EXCEPT ![kind] =
                               QueueWrite(@, kind, Chars(nsub + 1, L))]
              /\ req' = [req EXCEPT ![p] =
                           [op |-> "call_latest", f |-> kind, a |-> 0,
                            d |-> 0, t0 |-> 0, restart |-> FALSE]]
              /\ pc' = [pc EXCEPT ![p] = "lock"]
    /\ UNCHANGED <<always_call, latest_call, every_call, delay_call, locks,
                   running, tmr, debug_type, mgr, attrs, orphan, connected,
                   timeout, interval, sigq, now, drain, hist, nmain, ndrain>>

\* Code on the main thread calls setMaximumBlockCount(maximum) on a widget
MainSetMaximumBlockCount ==
    /\ drain.st = "idle"
    /\ nmain < MaxMainOps
    /\ nmain' = nmain + 1
    /\ \E kind \in WidgetClasses, maximum \in Maximums :
         widget' = [widget EXCEPT ![kind] = setMaximumBlockCount(@, maximum)]
    /\ UNCHANGED <<always_call, latest_call, every_call, delay_call, locks,
                   running, tmr, debug_type, mgr, attrs, orphan, connected,
                   timeout, interval, sigq, now, pc, req, drain, hist, nsub,
                   ndrain>>

\* Two producers that write to a QuickPlainTextEdit and a QuickTextEdit,
\* code on the main thread that calls setMaximumBlockCount, and the timer
\* of the global updater; the main event loop keeps delivering queued
\* signals and timer ticks, and every thread inside a method goes on.
NextWidget ==
    \/ \E p \in Producers : Write(p)
    \/ \E p \in Producers : ProducerStep(p)
    \/ MainStep
    \/ MainSetMaximumBlockCount

SpecWidget == Init /\ [][NextWidget]_vars /\ FairTimer

\* The number an entry of a queue is ordered by: a character, or the first
\* character of an item's text
EntryKey(k, e) == IF k = "QuickPlainTextEdit" THEN e ELSE e.text[1]

\* Sequence s holds entries of t only, each at most once, in the order of t
\* (the entries of t are in increasing order); k is the widget's class
InOrderOnce(k, s, t) ==
    /\ \A i \in 1..Len(s) : \E m \in 1..Len(t) : t[m] = s[i]
    /\ \A i \in 1..Len(s), j \in 1..Len(s) :
          i < j => EntryKey(k, s[i]) < EntryKey(k, s[j])

\* Sequence s is the last entries of t
IsSuffix(s, t) ==
    /\ Len(s) <= Len(t)
    /\ \A i \in 1..Len(s) : s[i] = t[Len(t) - Len(s) + i]

\* The entries this step's write puts on the queue of widget k
NewEntries(k) ==
    SubSeq(widget'[k].written, Len(widget[k].written) + 1,
           Len(widget'[k].written))

\* A call of the widget's update_display is on its way for every entry on
\* the widget's queue: a producer is about to store it, or it is stored in
\* latest_call, or run_update has collected it and not yet made it
DisplayPending(k) ==
    \/ \E p \in Producers : req[p].f = k /\ pc[p] \in {"lock", "cs"}
    \/ HasKey(latest_call, k)
    \/ drain.st # "idle" /\ HasKey(drain.latest, k)

\* One run_update call invokes the update_display of a widget at most
\* once, and an invocation inserts the whole queue, in its order, and
\* leaves it empty
OneDisplayPerDrain ==
    /\ [](\A j \in 1..ndrain, k \in WidgetClasses :
             Len(CallsOf(j, "latest", k)) <= 1)
    /\ [][\A k \in WidgetClasses :
             widget'[k].doc # widget[k].doc =>
                /\ widget'[k].doc = widget[k].doc \o widget[k].queue
                /\ widget'[k].queue = <<>>]_vars

\* Every write is followed by a submission of update_display that is
\* eventually invoked
NoEntryLeftBehind ==
    /\ [](\A k \in WidgetClasses :
             widget[k].queue # <<>> => DisplayPending(k))
    /\ <>[]AllDueInvoked

\* C35: whatever the interleaving of producers calling write with
\* update_display on the main thread, every written entry is inserted in
\* the document at most once and in the order it was put on the queue; the
\* writes made between two drains are displayed, all of them (for a
\* widget whose maximum is positive), by a single update_display
\* invocation; and no written entry stays on the queue for ever, since a
\* call_latest(update_display) follows every write.
C35_QuickTextEditBatching ==
    /\ [](\A k \in WidgetClasses :
             InOrderOnce(k, widget[k].doc, widget[k].written))
    /\ [][\A k \in WidgetClasses :
             (widget'[k].written # widget[k].written /\ widget[k].maxlen > 0)
                => widget'[k].queue = widget[k].queue \o NewEntries(k)]_vars
    /\ OneDisplayPerDrain
    /\ NoEntryLeftBehind

\* What the batching does guarantee: the entries inserted and the entries
\* still queued are written entries, each at most once, in the order they
\* were written; one invocation per drain inserts the whole queue; an
\* update_display call is on its way whenever the queue is not empty.
\* Entries the bounded queue has dropped are never displayed.
BatchingOfKeptEntries ==
    /\ [](\A k \in WidgetClasses :
             InOrderOnce(k, widget[k].doc \o widget[k].queue,
                         widget[k].written))
    /\ OneDisplayPerDrain
    /\ NoEntryLeftBehind

\* A written entry is lost: update_display has run, nothing is queued and
\* the document lacks an entry that was written while the queue's bound was
\* positive
WrittenEntryLost ==
    \E k \in WidgetClasses :
        /\ widget[k].maxlen > 0 /\ widget[k].queue = <<>>
        /\ widget[k].doc # <<>>
        /\ Len(widget[k].doc) < Len(widget[k].written)
        /\ \A p \in Producers : pc[p] = "idle"
        /\ latest_call = <<>> /\ drain.st = "idle"

\* C36: the queue of a widget never holds more than max(maximum, 0)
\* entries, maximum being the value last passed to setMaximumBlockCount
\* (DEFAULT_MAX_BLOCKS after __init__); a write that would exceed the bound
\* keeps the newest entries and discards the oldest, characters for a
\* QuickPlainTextEdit and whole items for a QuickTextEdit; with a maximum
\* of zero or less every written text is discarded and nothing is
\* displayed.
C36_BoundedQueue ==
    /\ [](\A k \in WidgetClasses :
             /\ widget[k].maxlen >= 0
             /\ Len(widget[k].queue) <= widget[k].maxlen)
    /\ [][\A k \in WidgetClasses :
             widget'[k].maxlen # widget[k].maxlen =>
                /\ \E maximum \in Maximums :
                      widget'[k].maxlen = IF maximum <= 0 THEN 0 ELSE maximum
                /\ IsSuffix(widget'[k].queue, widget[k].queue)]_vars
    /\ [][\A k \in WidgetClasses :
             widget'[k].written # widget[k].written =>
                LET all == widget[k].queue \o NewEntries(k)
                IN  /\ IsSuffix(widget'[k].queue, all)
                    /\ Len(widget'[k].queue) =
                          IF Len(all) <= widget[k].maxlen THEN Len(all)
                          ELSE widget[k].maxlen
                    /\ k = "QuickPlainTextEdit" =>
                          Len(NewEntries(k)) \in 1..MaxText
                    /\ k = "QuickTextEdit" => Len(NewEntries(k)) = 1]_vars
    /\ [][\A k \in WidgetClasses :
             widget[k].maxlen = 0 =>
                /\ widget'[k].doc = widget[k].doc
                /\ widget'[k].maxlen = 0 => widget'[k].queue = <<>>]_vars

\* C36 witness: on a widget whose maximum was set to 1, two entries were
\* written and none displayed yet: the queue holds the newest entry only
C36_Witness ==
    \E k \in WidgetClasses :
        /\ widget[k].maxlen = 1 /\ nmain = 1
        /\ Len(widget[k].written) >= 2 /\ widget[k].doc = <<>>
        /\ widget[k].queue = <<widget[k].written[Len(widget[k].written)]>>
====
